---- MODULE Spec2Model ----
(***************************************************************************)
(* The unsubscribe agent of AI-Email-Sorter (lib/unsubscribe-agent.ts):    *)
(* the batch orchestrator unsubscribeFromLinks, the per-target attempt     *)
(* loop processUnsubscribe and one attempt, analyzeAndAct.                 *)
(*                                                                         *)
(* JavaScript runs one task at a time and tasks interleave only at an      *)
(* await, so every action below is the code between two awaits of one      *)
(* task.  The browser, the pages and the oracle (the chat completion) are   *)
(* the environment: what they answer is drawn with \E in the action that   *)
(* awaits them.  The progress callback is assumed to return normally.      *)
(*                                                                         *)
(* The exported pure functions (isSuccessPage, isErrorPage,                 *)
(* friendlyUnsubscribeErrorMessage of lib/error-messages.ts) and the        *)
(* checkbox/radio branch of getInteractiveElements are modelled on strings  *)
(* and records and exercised by specifications of their own: SpecText,     *)
(* SpecMessage, SpecControl.  So are the pass of getInteractiveElements     *)
(* over a document with the locators it builds (SpecDom) and               *)
(* getFrameContent on a page with nested iframes (SpecFrame), and the     *)
(* hidden-ancestor filter of the pass (SpecHidden).  SpecLink and SpecAct  *)
(* run one link and observe its attempt loop, SpecPair runs two links and  *)
(* observes the first, SpecLive is the batch under fairness.               *)
(*                                                                         *)
(* The callers: the unsubscribe route that streams server-sent events      *)
(* (SpecRoute) and the SyncProvider of the client (SpecSync).              *)
(***************************************************************************)
EXTENDS Integers, Sequences, FiniteSets, TLC

\* ---- bounds of the model ----
MaxLinks == 3          \* longest batch
MaxConcurrency == 2    \* largest explicit concurrency option (the default is tried too)
MaxElements == 2       \* most interactive elements one extraction pass returns
MaxLabelSources == 2   \* most elements around one checkbox or radio that can label it
MaxNodes == 3          \* most nodes of a document one extraction pass iterates over
MaxFrames == 2         \* most iframes of the top document
MaxNested == 1         \* most iframes of an embedded document
MaxDepth == 3          \* most nodes from an element up to the child of document.body
MaxEmails == 3         \* most emails selected in one request of the unsubscribe route
MaxAccounts == 2       \* most accounts the selected emails belong to
MaxRequests == 3       \* most sync requests followed at a time

\* ---- constants of the program ----
UNSUBSCRIBE_CONCURRENCY == 5
MaxAttempts == 5

VARIABLES
  links,          \* the input list (links[i] is the i-th url)
  concurrency,    \* options.concurrency ?? UNSUBSCRIBE_CONCURRENCY
  onProgress,     \* TRUE when the caller passed a progress callback
  batch,          \* position of unsubscribeFromLinks
  browser,        \* "null" | "open" | "closed"
  results,        \* the pre-allocated results array
  returned,       \* the value unsubscribeFromLinks resolves with
  pc,             \* position of the task of each index
  context,        \* browsing context of each task: "none" | "open" | "closed" | "closeFailed"
  attempt,        \* loop variable of processUnsubscribe
  actionHistory,  \* actionHistory of processUnsubscribe
  ret,            \* the UnsubscribeResult processUnsubscribe is about to return
  \* ---- observation of the run (history variables, never read by the program) ----
  progress,       \* events the callback received, per index
  calls,          \* number of analyzeAndAct invocations, per index
  oracleCalls,    \* number of chat completion requests, per index
  domActions,     \* number of clicks and fills issued on the page, per index
  last,           \* what the most recent analyzeAndAct of the index did
  visible,        \* length class of the visible text at the most recent read
  noop,           \* "init" | "yes" | "no": every consultation so far was a no-op click
  seen,           \* the visible text the most recent analyzeAndAct read
  wasLong,        \* TRUE once an attempt read a visible text of 50 characters or more
  lastResult,     \* what the most recent analyzeAndAct returned to the loop
  waited,         \* how the wait since the most recent analyzeAndAct ended, "none" if none
  closes,         \* number of context.close() calls, per index
  response,       \* what page.goto resolved with: "none" | "ok" | "notOk"
  launchError,    \* TRUE when chromium.launch threw
  navigationError,\* per index: page.goto threw
  overtaken,      \* TRUE once a task completed while an earlier index was unfinished
  probe,          \* the indices whose attempt loop is observed (calls .. noop)
  oracle,         \* the oracle of this run: "any" | "plain"
  traced,         \* the observed indices whose extracted elements are recorded in last
  \* ---- the exported pure functions, called on their own ----
  text,           \* the argument of isSuccessPage and isErrorPage
  matched,        \* what the two returned for text
  message,        \* the argument of friendlyUnsubscribeErrorMessage
  friendly,       \* what it returned
  control,        \* a checkbox or radio met by the pass of getInteractiveElements
  extracted,      \* what the pass pushed for it
  document,       \* the nodes getInteractiveElements iterates over, in document order
  located,        \* the elements it returned, each with the node its locator resolves to
  acted,          \* the element number of the oracle's reply and the node clicked or filled
  page,           \* the page getFrameContent is called on: its body text and its iframes
  content,        \* what getFrameContent returned for it
  node,           \* the element the pass has come to, with its ancestors
  pushed,         \* whether the pass pushed an entry for it
  emails,         \* the selected emails the unsubscribe route found, in request order
  stage,          \* where the stream's start() is: idle, batch, operations, complete, errored
  group,          \* the account whose emails are being processed, by insertion order
  tasks,          \* the state of each link's task in the running unsubscribeFromLinks call
  pendingOperations, \* the database operations handleProgress queued for this account
  routeResults,   \* the results array of the route
  succeeded,      \* its counter of successes
  failed,         \* its counter of failures
  statusUpdates,  \* per email, the prisma.email.update calls that set its unsubscribeStatus
  complete,       \* the complete event, once sent
  isSyncing,      \* SyncProvider: the isSyncing state of the last render
  isAutoSyncEnabled, \* its isAutoSyncEnabled state
  isAutoSyncInitialized, \* its isAutoSyncInitialized state
  timer,          \* the pending timeout of scheduleNextSync, with the isSyncing its performSync captured
  inFlight,       \* the sync requests in flight, each with its stage
  progressText,   \* the progress text shown
  isError         \* its isError state

vars == << links, concurrency, onProgress, batch, browser, results, returned, pc,
           context, attempt, actionHistory, ret, progress, calls, oracleCalls,
           domActions, last, visible, noop, seen, wasLong, lastResult, waited, closes,
           response, launchError,
           navigationError, overtaken, probe, oracle, traced, text, matched, message,
           friendly, control, extracted,
           document, located, acted,
           page, content,
           node, pushed,
           emails, stage, group, tasks, pendingOperations, routeResults, succeeded, failed, statusUpdates, complete,
           isSyncing, isAutoSyncEnabled, isAutoSyncInitialized, timer, inFlight, progressText, isError >>

Targets == 1..Len(links)

\* ---- values ----
Missing == [missing |-> TRUE]                 \* an empty array slot / undefined

UnsubscribeResult(s, m) == [success |-> s, method |-> "ai", message |-> m]

\* messages of thrown errors, one per place that can throw
LaunchMessage == "browserType.launch: failed"
NewPageMessage == "context.newPage: failed"
NavigationMessage == "page.goto: net::ERR_CONNECTION_REFUSED"
EvaluateMessage == "locator.evaluate: failed"
OracleMessage == "Request timed out."

ElementTypes == {"button", "link", "input", "checkbox", "radio"}

RECURSIVE ListsUpTo(_)
ListsUpTo(k) == IF k = 0 THEN {<< >>}
                ELSE LET shorter == ListsUpTo(k - 1)
                     IN shorter \cup {Append(s, t) : s \in {x \in shorter : Len(x) = k - 1},
                                                     t \in ElementTypes}
ElementLists == ListsUpTo(MaxElements)

\* ---- what the environment can answer ----

\* getVisibleText(frame), classified by the three tests analyzeAndAct applies to it:
\* isSuccessPage(visibleText), isErrorPage(visibleText), visibleText.length < 50
Text(t, s, e, sh) == [throws |-> t, success |-> s, error |-> e, short |-> sh]
TextThrows == Text(TRUE, FALSE, FALSE, FALSE)
Texts == {Text(FALSE, s, e, sh) : s \in BOOLEAN, e \in BOOLEAN, sh \in BOOLEAN}
           \cup {TextThrows}

\* JavaScript values copied from the oracle's JSON into the result
JsBooleans == {"true", "false", "undefined"}
JsMessages == {"reason", "undefined"}

\* a chat completion: the request throws, or the content is not JSON, or it is
\* JSON null, or an object with the fields the code reads
Reply(k, el, s, m, v) ==
  [kind |-> k, element |-> el, success |-> s, message |-> m, value |-> v]
ReplyOf(k) == Reply(k, 0, "undefined", "undefined", FALSE)
TextReplies ==
  {ReplyOf("throws"), ReplyOf("malformed"), ReplyOf("null")}
    \cup {Reply("json", 0, s, m, FALSE) : s \in JsBooleans, m \in JsMessages}
ActionReplies ==
  {ReplyOf("throws"), ReplyOf("malformed"), ReplyOf("null"), ReplyOf("other")}
    \cup {Reply("DONE", 0, s, m, FALSE) : s \in JsBooleans, m \in JsMessages}
    \cup {Reply("CLICK", el, "undefined", "undefined", FALSE) : el \in -1..(MaxElements + 1)}
    \cup {Reply("FILL", el, "undefined", "undefined", v) :
            el \in -1..(MaxElements + 1), v \in BOOLEAN}

\* the oracle of a run: the replies it can give to the two requests
AnyOracle == [action |-> ActionReplies, text |-> TextReplies]
\* an oracle that fails, answers garbage, confirms, or clicks the first element
PlainOracle ==
  [action |-> {ReplyOf("throws"), ReplyOf("malformed"),
               Reply("DONE", 0, "true", "reason", FALSE),
               Reply("CLICK", 1, "undefined", "undefined", FALSE)},
   text |-> {ReplyOf("malformed"),
             Reply("json", 0, "true", "reason", FALSE)}]

\* the response page.goto resolves with: a 2xx status, or any other (404, 500)
GotoResponses == {"ok", "notOk"}

\* locator.click / the evaluate fallback / locator.fill
ClickOutcomes == {"ok", "fallback", "throws"}
FillOutcomes == {"ok", "throws"}

\* ---- strings and regular expressions ----

UpperCaseLetters == "ABCDEFGHIJKLMNOPQRSTUVWXYZ"
LowerCaseLetters == "abcdefghijklmnopqrstuvwxyz"

CharAt(s, i) == SubSeq(s, i, i)

\* the case folding of the i flag and of String.prototype.toLowerCase, on ASCII
LowerChar(c) ==
  IF \E k \in 1..Len(UpperCaseLetters) : CharAt(UpperCaseLetters, k) = c
    THEN CharAt(LowerCaseLetters,
                CHOOSE k \in 1..Len(UpperCaseLetters) : CharAt(UpperCaseLetters, k) = c)
    ELSE c

RECURSIVE toLowerCase(_)
toLowerCase(s) ==
  IF Len(s) = 0 THEN ""
  ELSE IF Len(s) = 1 THEN LowerChar(s)
  ELSE LET half == Len(s) \div 2
       IN toLowerCase(SubSeq(s, 1, half)) \o toLowerCase(SubSeq(s, half + 1, Len(s)))

\* the literal lit stands in s at position i
OccursAt(s, lit, i) ==
  i + Len(lit) - 1 <= Len(s) /\ SubSeq(s, i, i + Len(lit) - 1) = lit

\* String.prototype.includes
Includes(s, lit) == \E i \in 1..(Len(s) + 1) : OccursAt(s, lit, i)

\* the characters a dot does not match
LineTerminators == {"\n", "\r"}

\* what .* can span: s[from..to] holds no line terminator
DotStar(s, from, to) == \A k \in from..to : CharAt(s, k) \notin LineTerminators

\* A pattern is a sequence of sets of literals: the literals of one set are the
\* alternatives ( x|y , l? ) at that place, and consecutive places are separated
\* by .* in the source.  Places k.. of pattern p match in s, place k beginning at
\* or after position from, with .* spanning what lies between.
RECURSIVE MatchesFrom(_, _, _, _)
MatchesFrom(s, p, k, from) ==
  IF k > Len(p) THEN TRUE
  ELSE \E i \in from..Len(s) :
         /\ DotStar(s, from, i - 1)
         /\ \E lit \in p[k] :
              OccursAt(s, lit, i) /\ MatchesFrom(s, p, k + 1, i + Len(lit))

\* RegExp.prototype.test of an unanchored pattern with the i flag
Test(p, s) ==
  LET folded == toLowerCase(s)
  IN \E i \in 1..Len(folded) :
       \E lit \in p[1] :
         OccursAt(folded, lit, i) /\ MatchesFrom(folded, p, 2, i + Len(lit))

\* the same without the i flag
TestCaseSensitive(p, s) ==
  \E i \in 1..Len(s) :
    \E lit \in p[1] : OccursAt(s, lit, i) /\ MatchesFrom(s, p, 2, i + Len(lit))

\* ---- isSuccessPage, isErrorPage ----

SuccessPatterns ==
  { << {"already unsubscribed"} >>,
    << {"you are now unsubscribed"} >>,
    << {"successfully unsubscribed"} >>,
    << {"you've been unsubscribed", "you have been unsubscribed"} >>,
    << {"request"}, {"accepted"} >>,
    << {"request"}, {"being processed"} >>,
    << {"removed from"}, {"list"} >>,
    << {"no longer receive"} >>,
    << {"subscription"}, {"canceled", "cancelled"} >>,
    << {"opt"}, {"out"}, {"complete"} >>,
    << {"preferences"}, {"updated"} >>,
    << {"preferences"}, {"saved"} >>,
    << {"thank you"}, {"unsubscrib"} >>,
    << {"thanks"}, {"confirming"}, {"preferences"} >>,
    << {"we've removed", "we have removed"} >>,
    << {"you've been removed", "you have been removed"} >>,
    << {"changes"}, {"saved"} >>,
    << {"settings"}, {"saved"} >>,
    << {"settings"}, {"updated"} >>,
    << {"successfully"}, {"updated"} >>,
    << {"updated our system"} >>,
    << {"we've updated", "we have updated"} >>,
    << {"email preferences"}, {"updated"} >>,
    << {"saved"}, {"preferences"} >>,
    << {"saved"}, {"email"}, {"preferences"} >>,
    << {"\"success\":true"} >>,
    << {"unsubscribe successful"} >> }

ErrorPatterns ==
  { << {"unsubscribe"}, {"failed"} >>,
    << {"error"}, {"occurred"} >>,
    << {"something went wrong"} >>,
    << {"try again later"} >>,
    << {"link"}, {"expired"} >>,
    << {"invalid"}, {"link"} >> }

\* the patterns are tested without the i flag
isSuccessPageCaseSensitive(t) == \E p \in SuccessPatterns : TestCaseSensitive(p, t)

\* lines 726-757
isSuccessPage(t) == \E p \in SuccessPatterns : Test(p, t)

\* patterns.every in place of patterns.some
isErrorPageEvery(t) == \A p \in ErrorPatterns : Test(p, t)

\* lines 759-769
isErrorPage(t) == \E p \in ErrorPatterns : Test(p, t)

\* ---- analyzeAndAct ----

\* what an invocation did after it read the visible text: whether
\* getInteractiveElements was called, which request was sent, which reply came,
\* which DOM action was issued; for the action request also the elements the pass
\* returned, the element number of the reply, whether it had a value, and the
\* element acted on
NoTrace ==
  [extract |-> FALSE, oracle |-> "none", reply |-> "none", act |-> "none",
   elements |-> << >>, element |-> 0, value |-> FALSE, on |-> "none",
   verdict |-> "none"]
ExtractTrace == [NoTrace EXCEPT !.extract = TRUE]
Trace(o, r, a) == [ExtractTrace EXCEPT !.oracle = o, !.reply = r, !.act = a]
ActionTrace(elements, r, a, el) ==
  [extract |-> TRUE, oracle |-> "action", reply |-> r.kind, act |-> a,
   elements |-> elements, element |-> r.element, value |-> r.value, on |-> el,
   verdict |-> "none"]
\* the text-only request: the success value of the verdict the reply carried
VerdictTrace(r) == [Trace("text", r.kind, "none") EXCEPT !.verdict = r.success]

\* what the loop of processUnsubscribe got back from an invocation
NoResult == [kind |-> "none", wait |-> FALSE, pushed |-> 0]

\* what one invocation did: it threw `message`, or returned the AnalyzeResult
\* {done, success, message, shouldWaitForPageChange}; push is what it appended to
\* actionHistory, text is the visible text it read, trace what it asked and did
Outcome(th, d, s, m, w, p, t, tr) ==
  [throws |-> th, done |-> d, success |-> s, message |-> m,
   shouldWaitForPageChange |-> w, push |-> p, text |-> t, trace |-> tr]
Thrown(m, p, t, tr) == Outcome(TRUE, FALSE, "false", m, FALSE, p, t, tr)
Done(s, m, p, t, tr) == Outcome(FALSE, TRUE, s, m, FALSE, p, t, tr)
\* every result that is not done asks for the page-change wait
ContinueWaits(w, p, t, tr) == Outcome(FALSE, FALSE, "false", "", TRUE, p, t, tr)

Continue(w, p, t, tr) == Outcome(FALSE, FALSE, "false", "", w, p, t, tr)

Clicked(att) == [attempt |-> att, action |-> "Clicked"]
Filled(att) == [attempt |-> att, action |-> "Filled"]

\* the action is executed without being tracked
TrackNothing(entry) == << >>

\* lines 644-646, 685-687: actionHistory.push(...)
Track(entry) == << entry >>

\* what the trace records of a click: the direct click went through ("click"), it
\* threw and the programmatic click went through ("fallback"), or both threw
ClickAct(c) ==
  CASE c = "ok" -> "click"
    [] c = "fallback" -> "fallback"
    [] c = "throws" -> "clickFailed"

\* the direct click is not guarded: when it throws, the action has failed
ClickThrowsUnguarded(c) == c # "ok"

\* lines 652-657: the click statement throws only when the direct click threw and
\* the element.click() of its catch block threw too
ClickThrows(c) == c = "throws"

\* a FILL is executed whether or not the reply carries a value
FillRequestedWithoutValue(r) == r.kind = "FILL" /\ r.element # 0

\* line 677: action.action === "FILL" && action.element && action.value
FillRequested(r) == r.kind = "FILL" /\ r.element # 0 /\ r.value

\* lines 626-723: the action parsed from the reply is executed; element is the
\* entry of the list at 0-based index idx
ExecuteAction(att, t, elements, r) ==
  LET idx == r.element - 1
      valid == idx >= 0 /\ idx < Len(elements)
      element == elements[idx + 1]
  IN
  IF r.kind = "null"
    THEN {Done("false", "Action failed: Cannot read properties of null", << >>, t,
               ActionTrace(elements, r, "none", "none"))}
  ELSE IF r.kind = "DONE"
    THEN {Done(r.success, r.message, << >>, t, ActionTrace(elements, r, "none", "none"))}
  ELSE IF r.kind = "CLICK" /\ r.element # 0
    THEN IF valid
           THEN { IF ClickThrows(c)
                    THEN Done("false", "Action failed: locator.evaluate: failed",
                              Track(Clicked(att)), t,
                              ActionTrace(elements, r, ClickAct(c), element))
                    ELSE Continue(element \in {"button", "link"},
                                  Track(Clicked(att)), t,
                                  ActionTrace(elements, r, ClickAct(c), element))
                  : c \in ClickOutcomes }
           ELSE {Done("false", "Invalid element index", << >>, t,
                      ActionTrace(elements, r, "none", "none"))}
  ELSE IF FillRequested(r)
    THEN IF valid
           THEN { IF f = "throws"
                    THEN Done("false", "Action failed: locator.fill: failed",
                              Track(Filled(att)), t,
                              ActionTrace(elements, r, "fillFailed", element))
                    ELSE Continue(FALSE, Track(Filled(att)), t,
                                  ActionTrace(elements, r, "fill", element))
                  : f \in FillOutcomes }
           ELSE {Done("false", "Invalid element index", << >>, t,
                      ActionTrace(elements, r, "none", "none"))}
  ELSE {Done("false", "Invalid AI action", << >>, t,
             ActionTrace(elements, r, "none", "none"))}

\* a reply that does not parse is skipped and the loop goes on
AskActionRetries(att, t, elements, r) ==
  IF r.kind = "throws"
    THEN {Thrown(OracleMessage, << >>, t, ActionTrace(elements, r, "none", "none"))}
  ELSE IF r.kind = "malformed"
    THEN {Continue(FALSE, << >>, t, ActionTrace(elements, r, "none", "none"))}
  ELSE ExecuteAction(att, t, elements, r)

\* lines 604-624: the action request and the parse of its reply
AskAction(att, t, elements, r) ==
  IF r.kind = "throws"
    THEN {Thrown(OracleMessage, << >>, t, ActionTrace(elements, r, "none", "none"))}
  ELSE IF r.kind = "malformed"
    THEN {Done("false", "AI response parsing failed", << >>, t,
               ActionTrace(elements, r, "none", "none"))}
  ELSE ExecuteAction(att, t, elements, r)

\* a verdict other than success true lets the loop go on
AskVerdictGoesOn(t, r) ==
  IF r.kind = "throws"
    THEN Thrown(OracleMessage, << >>, t, Trace("text", r.kind, "none"))
  ELSE IF r.kind \in {"malformed", "null"}
    THEN Done("false", "No interactive elements found", << >>, t,
              Trace("text", r.kind, "none"))
  ELSE IF r.success # "true"
    THEN Continue(FALSE, << >>, t, VerdictTrace(r))
  ELSE Done(r.success,
            IF r.message = "undefined" THEN "No interactive elements found"
                                       ELSE r.message,
            << >>, t, VerdictTrace(r))

\* lines 488-530: no interactive elements, the text-only verdict
AskVerdict(t, r) ==
  IF r.kind = "throws"
    THEN Thrown(OracleMessage, << >>, t, Trace("text", r.kind, "none"))
  ELSE IF r.kind \in {"malformed", "null"}
    THEN Done("false", "No interactive elements found", << >>, t,
              Trace("text", r.kind, "none"))
  ELSE Done(r.success,
            IF r.message = "undefined" THEN "No interactive elements found"
                                       ELSE r.message,
            << >>, t, VerdictTrace(r))

\* lines 477-530 and 532-624: extraction, then one of the two requests
AfterHeuristics(att, t, orc) ==
  {Thrown(EvaluateMessage, << >>, t, ExtractTrace)}     \* getInteractiveElements throws
    \cup UNION { IF Len(elements) = 0
                   THEN {AskVerdict(t, r) : r \in orc.text}
                   ELSE UNION {AskAction(att, t, elements, r) : r \in orc.action}
                 : elements \in ElementLists }

\* the elements are extracted first and the heuristics looked at afterwards
AfterVisibleTextExtractsFirst(att, t, orc) ==
  IF t.throws
    THEN {Thrown(EvaluateMessage, << >>, t, NoTrace)}
  ELSE IF t.success \/ (t.short /\ att > 1)
    THEN {Thrown(EvaluateMessage, << >>, t, ExtractTrace),
          Done("true", "Unsubscribed successfully", << >>, t, ExtractTrace)}
  ELSE IF t.error
    THEN {Thrown(EvaluateMessage, << >>, t, ExtractTrace),
          Done("false", "Unsubscribe failed - error on page", << >>, t, ExtractTrace)}
  ELSE AfterHeuristics(att, t, orc)

\* lines 441-475: the termination heuristics on the visible text
AfterVisibleText(att, t, orc) ==
  IF t.throws
    THEN {Thrown(EvaluateMessage, << >>, t, NoTrace)}
  ELSE IF t.success
    THEN {Done("true", "Unsubscribed successfully", << >>, t, NoTrace)}
  ELSE IF t.short /\ att > 1
    THEN {Done("true", "Unsubscribed successfully", << >>, t, NoTrace)}
  ELSE IF t.error
    THEN {Done("false", "Unsubscribe failed - error on page", << >>, t, NoTrace)}
  ELSE AfterHeuristics(att, t, orc)

\* every way one invocation with this attempt number can go
analyzeAndAct(att, orc) ==
  {Thrown(EvaluateMessage, << >>, TextThrows, NoTrace)}  \* getFrameContent throws
    \cup UNION {AfterVisibleText(att, t, orc) : t \in Texts}

\* the same outcome when the elements of the pass and the element acted on are
\* not recorded
Brief(o) ==
  [o EXCEPT !.trace = [@ EXCEPT !.elements = << >>, !.on = "none"]]

TracedOutcomes == [att \in 1..MaxAttempts |-> analyzeAndAct(att, AnyOracle)]
AnyOutcomes == [att \in 1..MaxAttempts |-> {Brief(o) : o \in TracedOutcomes[att]}]
PlainOutcomes ==
  [att \in 1..MaxAttempts |-> {Brief(o) : o \in analyzeAndAct(att, PlainOracle)}]

\* ---- the state machine ----

\* no call of the function is under way
TextIdle == text = "" /\ matched = Missing
MessageIdle == message = "" /\ friendly = Missing
ControlIdle == control = Missing /\ extracted = Missing
DomIdle == document = << >> /\ located = Missing /\ acted = Missing
FrameIdle == page = Missing /\ content = Missing
HiddenIdle == node = Missing /\ pushed = Missing
SyncIdle ==
  /\ isSyncing = FALSE /\ isAutoSyncEnabled = FALSE /\ isAutoSyncInitialized = FALSE
  /\ timer = Missing /\ inFlight = << >> /\ progressText = "null" /\ isError = FALSE
RouteIdle ==
  /\ emails = << >> /\ stage = "idle" /\ group = 0 /\ tasks = << >>
  /\ pendingOperations = << >> /\ routeResults = << >>
  /\ succeeded = 0 /\ failed = 0 /\ statusUpdates = << >> /\ complete = Missing

Settled(i) == pc[i] \in {"fulfilled", "rejected"}
Active(i) == pc[i] \notin {"queued", "fulfilled", "rejected"}
activeCount == Cardinality({i \in Targets : Active(i)})

Init ==
  /\ links \in {[k \in 1..n |-> k] : n \in 0..MaxLinks}
  /\ concurrency \in (1..MaxConcurrency) \cup {UNSUBSCRIBE_CONCURRENCY}
  /\ onProgress = TRUE
  /\ batch = "called"
  /\ browser = "null"
  /\ results = [i \in Targets |-> Missing]
  /\ returned = << >>
  /\ pc = [i \in Targets |-> "queued"]
  /\ context = [i \in Targets |-> "none"]
  /\ attempt = [i \in Targets |-> 0]
  /\ actionHistory = [i \in Targets |-> << >>]
  /\ ret = [i \in Targets |-> Missing]
  /\ progress = [i \in Targets |-> [started |-> 0, completed |-> 0, result |-> Missing]]
  /\ calls = [i \in Targets |-> 0]
  /\ oracleCalls = [i \in Targets |-> 0]
  /\ domActions = [i \in Targets |-> 0]
  /\ last = [i \in Targets |-> NoTrace]
  /\ visible = [i \in Targets |-> "unread"]
  /\ noop = [i \in Targets |-> "init"]
  /\ seen = [i \in Targets |-> TextThrows]
  /\ wasLong = [i \in Targets |-> FALSE]
  /\ lastResult = [i \in Targets |-> NoResult]
  /\ waited = [i \in Targets |-> "none"]
  /\ closes = [i \in Targets |-> 0]
  /\ response = [i \in Targets |-> "none"]
  /\ launchError = FALSE
  /\ navigationError = [i \in Targets |-> FALSE]
  /\ overtaken = FALSE
  /\ probe = {}
  /\ oracle = "plain"
  /\ traced = {}
  /\ TextIdle
  /\ MessageIdle
  /\ ControlIdle
  /\ DomIdle
  /\ FrameIdle
  /\ HiddenIdle
  /\ RouteIdle
  /\ SyncIdle

taskVars == << pc, context, attempt, actionHistory, ret >>
attemptVars == << calls, oracleCalls, domActions, last, visible, noop, seen, wasLong,
                 lastResult >>
loopVars == << attemptVars, waited >>
ghostVars == << loopVars, closes, response >>
domVars == << document, located, acted >>
frameVars == << page, content >>
hiddenVars == << node, pushed >>
routeVars == << emails, stage, group, tasks, pendingOperations, routeResults,
               succeeded, failed, statusUpdates, complete >>
syncVars == << isSyncing, isAutoSyncEnabled, isAutoSyncInitialized, timer, inFlight,
              progressText, isError >>
pureVars == << text, matched, message, friendly, control, extracted, domVars, frameVars,
              hiddenVars, routeVars, syncVars >>
callVars == << links, concurrency, onProgress, probe, oracle, traced, pureVars >>

\* lines 82-84: an empty list returns [] before anything is launched
ReturnEmpty ==
  /\ batch = "called"
  /\ Len(links) = 0
  /\ batch' = "returned"
  /\ returned' = << >>
  /\ UNCHANGED << callVars, browser, results, taskVars, progress, ghostVars,
                  launchError, navigationError, overtaken >>

\* lines 97-127: the browser is launched and every link is handed to limit()
ChromiumLaunch ==
  /\ batch = "called"
  /\ Len(links) > 0
  /\ browser' = "open"
  /\ batch' = "running"
  /\ UNCHANGED << callVars, results, returned, taskVars, progress, ghostVars,
                  launchError, navigationError, overtaken >>

\* the launch error leaves unsubscribeFromLinks
ChromiumLaunchRethrows ==
  /\ batch = "called"
  /\ Len(links) > 0
  /\ launchError' = TRUE
  /\ batch' = "rejected"
  /\ UNCHANGED << callVars, browser, results, returned, taskVars, progress, ghostVars,
                  navigationError, overtaken >>

\* lines 100, 141-156: the launch throws, the catch answers for every link
ChromiumLaunchThrows ==
  /\ batch = "called"
  /\ Len(links) > 0
  /\ launchError' = TRUE
  /\ returned' = [i \in Targets |-> UnsubscribeResult("false", LaunchMessage)]
  /\ batch' = "returned"
  /\ UNCHANGED << callVars, browser, results, taskVars, progress, ghostVars, navigationError,
                  overtaken >>

\* the slot of a task that rejected is never handed on
MayStartAfterFulfilled(i) ==
  /\ pc[i] = "queued"
  /\ \A j \in Targets : j < i => pc[j] # "queued"
  /\ Cardinality({j \in Targets : Active(j) \/ pc[j] = "rejected"}) < concurrency

\* every queued function is run at once
MayStartUnlimited(i) ==
  /\ pc[i] = "queued"
  /\ \A j \in Targets : j < i => pc[j] # "queued"

\* p-limit runs the queued functions first in, first out, while fewer than
\* `concurrency` are running
MayStart(i) ==
  /\ pc[i] = "queued"
  /\ \A j \in Targets : j < i => pc[j] # "queued"
  /\ activeCount < concurrency

\* lines 107-118, 169-177: the task starts, reports "started" and asks for a context
TaskStart(i) ==
  /\ batch = "running"
  /\ MayStart(i)
  /\ progress' = IF onProgress
                   THEN [progress EXCEPT ![i].started = @ + 1]
                   ELSE progress
  /\ pc' = [pc EXCEPT ![i] = "newContext"]
  /\ UNCHANGED << callVars, batch, browser, results, returned, context, attempt,
                  actionHistory, ret, ghostVars, launchError, navigationError, overtaken >>

\* line 173: browser.newContext resolves, or throws outside the try block
NewContext(i) ==
  /\ pc[i] = "newContext"
  /\ \/ /\ context' = [context EXCEPT ![i] = "open"]
        /\ pc' = [pc EXCEPT ![i] = "newPage"]
     \/ /\ pc' = [pc EXCEPT ![i] = "rejected"]
        /\ UNCHANGED context
  /\ UNCHANGED << callVars, batch, browser, results, returned, attempt, actionHistory,
                  ret, progress, ghostVars, launchError, navigationError, overtaken >>

\* the catch block answers with a fixed message
CaughtUnknown(errorMessage) == UnsubscribeResult("false", "Unknown error")

\* the catch of processUnsubscribe, lines 229-236
Caught(errorMessage) == UnsubscribeResult("false", errorMessage)

\* the failure of newPage returns at once, past the finally block
NewPageLeaks(i) ==
  /\ pc[i] = "newPage"
  /\ \/ /\ pc' = [pc EXCEPT ![i] = "goto"]
        /\ UNCHANGED ret
     \/ /\ ret' = [ret EXCEPT ![i] = Caught(NewPageMessage)]
        /\ pc' = [pc EXCEPT ![i] = "returned"]
  /\ UNCHANGED << callVars, batch, browser, results, returned, context, attempt,
                  actionHistory, progress, ghostVars, launchError, navigationError, overtaken >>

\* lines 180-181: context.newPage
NewPage(i) ==
  /\ pc[i] = "newPage"
  /\ \/ /\ pc' = [pc EXCEPT ![i] = "goto"]
        /\ UNCHANGED ret
     \/ /\ ret' = [ret EXCEPT ![i] = Caught(NewPageMessage)]
        /\ pc' = [pc EXCEPT ![i] = "close"]
  /\ UNCHANGED << callVars, batch, browser, results, returned, context, attempt,
                  actionHistory, progress, ghostVars, launchError, navigationError, overtaken >>

\* a navigation error is not caught per target: it fails the whole batch
GotoAborts(i) ==
  /\ pc[i] = "goto"
  /\ \/ /\ \E status \in GotoResponses :
             response' = IF i \in probe THEN [response EXCEPT ![i] = status]
                                        ELSE response
        /\ pc' = [pc EXCEPT ![i] = "waitForContent"]
        /\ UNCHANGED << ret, navigationError, results >>
     \/ /\ ret' = [ret EXCEPT ![i] = Caught(NavigationMessage)]
        /\ pc' = [pc EXCEPT ![i] = "close"]
        /\ navigationError' = [navigationError EXCEPT ![i] = TRUE]
        /\ results' = [j \in Targets |-> Caught(NavigationMessage)]
        /\ UNCHANGED response
  /\ UNCHANGED << callVars, batch, browser, returned, context, attempt,
                  actionHistory, progress, loopVars, closes, launchError, overtaken >>

\* lines 184-187: page.goto resolves with the response of the main resource,
\* whatever its status (the returned response is not looked at), or throws when
\* the page cannot be reached
Goto(i) ==
  /\ pc[i] = "goto"
  /\ \/ /\ \E status \in GotoResponses :
             response' = IF i \in probe THEN [response EXCEPT ![i] = status]
                                        ELSE response
        /\ pc' = [pc EXCEPT ![i] = "waitForContent"]
        /\ UNCHANGED << ret, navigationError >>
     \/ /\ ret' = [ret EXCEPT ![i] = Caught(NavigationMessage)]
        /\ pc' = [pc EXCEPT ![i] = "close"]
        /\ navigationError' = [navigationError EXCEPT ![i] = TRUE]
        /\ UNCHANGED response
  /\ UNCHANGED << callVars, batch, browser, results, returned, context, attempt,
                  actionHistory, progress, loopVars, closes, launchError, overtaken >>

\* lines 294-325: content ready or timeout, waitForContent returns either way;
\* lines 194-196: the history is created and the loop entered
WaitForContent(i) ==
  /\ pc[i] = "waitForContent"
  /\ \E how \in {"ready", "timeout"} :
       /\ pc' = [pc EXCEPT ![i] = "analyzeAndAct"]
       /\ attempt' = [attempt EXCEPT ![i] = 1]
       /\ actionHistory' = [actionHistory EXCEPT ![i] = << >>]
       /\ waited' = IF i \in probe THEN [waited EXCEPT ![i] = how] ELSE waited
  /\ UNCHANGED << callVars, batch, browser, results, returned, context, ret,
                  progress, attemptVars, closes, response, launchError,
                  navigationError, overtaken >>

\* the loop test is off by one
NextAttemptOffByOne(i) ==
  IF attempt[i] <= MaxAttempts
    THEN /\ attempt' = [attempt EXCEPT ![i] = @ + 1]
         /\ pc' = [pc EXCEPT ![i] = "analyzeAndAct"]
         /\ UNCHANGED ret
    ELSE /\ ret' = [ret EXCEPT ![i] = UnsubscribeResult("false",
                      "Could not complete unsubscribe after multiple attempts")]
         /\ pc' = [pc EXCEPT ![i] = "close"]
         /\ UNCHANGED attempt

\* lines 196, 221-228: attempt++ and the loop test; past the ceiling the loop is left
NextAttempt(i) ==
  IF attempt[i] + 1 <= MaxAttempts
    THEN /\ attempt' = [attempt EXCEPT ![i] = @ + 1]
         /\ pc' = [pc EXCEPT ![i] = "analyzeAndAct"]
         /\ UNCHANGED ret
    ELSE /\ ret' = [ret EXCEPT ![i] = UnsubscribeResult("false",
                      "Could not complete unsubscribe after multiple attempts")]
         /\ pc' = [pc EXCEPT ![i] = "close"]
         /\ UNCHANGED attempt

TextClass(t) == IF t.throws THEN "unread" ELSE IF t.short THEN "short" ELSE "long"

\* the page the attempt read is the page the previous attempt read
SamePage(i, t) ==
  \/ visible[i] = "unread"
  \/ ~t.throws /\ ~t.success /\ ~t.error /\ TextClass(t) = visible[i]

NoopAfter(i, o) ==
  IF noop[i] = "no" \/ o.throws \/ ~SamePage(i, o.text) THEN "no"
  ELSE IF o.trace.oracle = "none" THEN noop[i]
  ELSE IF o.trace.reply = "CLICK" /\ o.trace.act \in {"click", "fallback"} THEN "yes"
  ELSE "no"

ResultOf(o) ==
  [kind |-> IF o.throws THEN "thrown" ELSE IF o.done THEN "done" ELSE "continue",
   wait |-> o.shouldWaitForPageChange, pushed |-> Len(o.push)]

\* lines 199-220, 229-236: one iteration of the loop of processUnsubscribe
AnalyzeAndAct(i) ==
  /\ pc[i] = "analyzeAndAct"
  /\ \E o \in (IF i \in traced THEN TracedOutcomes
               ELSE IF oracle = "any" THEN AnyOutcomes ELSE PlainOutcomes)[attempt[i]] :
       /\ actionHistory' = [actionHistory EXCEPT
                              ![i] = IF o.throws \/ o.done THEN << >> ELSE @ \o o.push]
       /\ IF i \in probe
            THEN /\ calls' = [calls EXCEPT ![i] = @ + 1]
                 /\ oracleCalls' = [oracleCalls EXCEPT
                                      ![i] = IF o.trace.oracle = "none" THEN @ ELSE @ + 1]
                 /\ domActions' = [domActions EXCEPT
                                     ![i] = IF o.trace.act = "none" THEN @ ELSE @ + 1]
                 /\ last' = [last EXCEPT ![i] = o.trace]
                 /\ visible' = [visible EXCEPT ![i] = TextClass(o.text)]
                 /\ noop' = [noop EXCEPT ![i] = NoopAfter(i, o)]
                 /\ seen' = [seen EXCEPT ![i] = o.text]
                 /\ wasLong' = [wasLong EXCEPT
                                  ![i] = @ \/ (~o.text.throws /\ ~o.text.short)]
                 /\ lastResult' = [lastResult EXCEPT ![i] = ResultOf(o)]
                 /\ waited' = [waited EXCEPT ![i] = "none"]
            ELSE UNCHANGED loopVars
       /\ IF o.throws
            THEN /\ ret' = [ret EXCEPT ![i] = Caught(o.message)]
                 /\ pc' = [pc EXCEPT ![i] = "close"]
                 /\ UNCHANGED attempt
          ELSE IF o.done
            THEN /\ ret' = [ret EXCEPT ![i] = UnsubscribeResult(o.success, o.message)]
                 /\ pc' = [pc EXCEPT ![i] = "close"]
                 /\ UNCHANGED attempt
          ELSE IF o.shouldWaitForPageChange
            THEN /\ pc' = [pc EXCEPT ![i] = "waitForPageChange"]
                 /\ UNCHANGED << attempt, ret >>
          ELSE NextAttempt(i)
  /\ UNCHANGED << callVars, batch, browser, results, returned, context, progress,
                  closes, response, launchError, navigationError, overtaken >>

\* the timeout of the second wait is not caught
WaitForPageChangeThrows(i) ==
  /\ pc[i] = "waitForPageChange"
  /\ \E how \in {"urlChanged", "sameUrl", "timeout"} :
       /\ IF how = "timeout"
            THEN /\ ret' = [ret EXCEPT ![i] = Caught("page.waitForTimeout: Timeout exceeded")]
                 /\ pc' = [pc EXCEPT ![i] = "close"]
                 /\ UNCHANGED attempt
            ELSE NextAttempt(i)
       /\ waited' = IF i \in probe THEN [waited EXCEPT ![i] = how] ELSE waited
  /\ UNCHANGED << callVars, batch, browser, results, returned, context, actionHistory,
                  progress, attemptVars, closes, response, launchError,
                  navigationError, overtaken >>

\* lines 327-354: the url changed, or the quiescence window passed, or both timed out
WaitForPageChange(i) ==
  /\ pc[i] = "waitForPageChange"
  /\ \E how \in {"urlChanged", "sameUrl", "timeout"} :
       /\ NextAttempt(i)
       /\ waited' = IF i \in probe THEN [waited EXCEPT ![i] = how] ELSE waited
  /\ UNCHANGED << callVars, batch, browser, results, returned, context, actionHistory,
                  progress, attemptVars, closes, response, launchError,
                  navigationError, overtaken >>

\* lines 237-239: the finally block closes the context; if close() throws, that
\* error replaces the result and processUnsubscribe rejects
ContextClose(i) ==
  /\ pc[i] = "close"
  /\ \/ /\ context' = [context EXCEPT ![i] = "closed"]
        /\ pc' = [pc EXCEPT ![i] = "returned"]
        /\ UNCHANGED ret
     \/ /\ context' = [context EXCEPT ![i] = "closeFailed"]
        /\ pc' = [pc EXCEPT ![i] = "rejected"]
        /\ ret' = [ret EXCEPT ![i] = Missing]
  /\ closes' = [closes EXCEPT ![i] = @ + 1]
  /\ attempt' = [attempt EXCEPT ![i] = 0]
  /\ actionHistory' = [actionHistory EXCEPT ![i] = << >>]
  /\ UNCHANGED << callVars, batch, browser, results, returned, progress, loopVars,
                  response, launchError, navigationError, overtaken >>

\* a target that failed is processed again
TaskCompleteRetries(i) ==
  /\ pc[i] = "returned"
  /\ IF ret[i].success = "false" /\ results[i] = Missing
       THEN /\ pc' = [pc EXCEPT ![i] = "newContext"]
            /\ results' = [results EXCEPT ![i] = ret[i]]
            /\ UNCHANGED << progress, overtaken >>
       ELSE /\ results' = [results EXCEPT ![i] = ret[i]]
            /\ progress' = IF onProgress
                             THEN [progress EXCEPT ![i].completed = @ + 1,
                                                   ![i].result = ret[i]]
                             ELSE progress
            /\ pc' = [pc EXCEPT ![i] = "fulfilled"]
            /\ overtaken' = (overtaken \/ \E j \in Targets : j < i /\ ~Settled(j))
  /\ UNCHANGED << callVars, batch, browser, returned, context, attempt, actionHistory,
                  ret, ghostVars, launchError, navigationError >>

\* the result is pushed: it lands in the first free slot, in completion order
TaskCompletePushes(i) ==
  /\ pc[i] = "returned"
  /\ LET k == CHOOSE k \in Targets :
                 results[k] = Missing /\ \A j \in Targets : j < k => results[j] # Missing
     IN results' = [results EXCEPT ![k] = ret[i]]
  /\ progress' = IF onProgress
                   THEN [progress EXCEPT ![i].completed = @ + 1, ![i].result = ret[i]]
                   ELSE progress
  /\ pc' = [pc EXCEPT ![i] = "fulfilled"]
  /\ overtaken' = (overtaken \/ \E j \in Targets : j < i /\ ~Settled(j))
  /\ UNCHANGED << callVars, batch, browser, returned, context, attempt, actionHistory,
                  ret, ghostVars, launchError, navigationError >>

\* lines 119-124: the result is stored at the task's own index and reported
TaskComplete(i) ==
  /\ pc[i] = "returned"
  /\ results' = [results EXCEPT ![i] = ret[i]]
  /\ progress' = IF onProgress
                   THEN [progress EXCEPT ![i].completed = @ + 1, ![i].result = ret[i]]
                   ELSE progress
  /\ pc' = [pc EXCEPT ![i] = "fulfilled"]
  /\ overtaken' = (overtaken \/ \E j \in Targets : j < i /\ ~Settled(j))
  /\ UNCHANGED << callVars, batch, browser, returned, context, attempt, actionHistory,
                  ret, ghostVars, launchError, navigationError >>

\* the slots of rejected tasks are left empty
FillMissingSkipped ==
  /\ batch = "running"
  /\ \A i \in Targets : Settled(i)
  /\ batch' = "finally"
  /\ UNCHANGED << callVars, browser, results, returned, taskVars, progress, ghostVars,
                  launchError, navigationError, overtaken >>

\* Promise.allSettled is not awaited: the fill-in loop runs while tasks are running
FillMissingUnawaited ==
  /\ batch = "running"
  /\ results' = [i \in Targets |->
                   IF results[i] = Missing
                     THEN UnsubscribeResult("false", "Unknown error")
                     ELSE results[i]]
  /\ batch' = "finally"
  /\ UNCHANGED << callVars, browser, returned, taskVars, progress, ghostVars,
                  launchError, navigationError, overtaken >>

\* lines 105, 129-140: all tasks settled, empty slots are filled, results is returned
FillMissing ==
  /\ batch = "running"
  /\ \A i \in Targets : Settled(i)
  /\ results' = [i \in Targets |->
                   IF results[i] = Missing
                     THEN UnsubscribeResult("false", "Unknown error")
                     ELSE results[i]]
  /\ batch' = "finally"
  /\ UNCHANGED << callVars, browser, returned, taskVars, progress, ghostVars,
                  launchError, navigationError, overtaken >>

\* lines 150-156: the browser is closed; if close() throws, the call rejects
BrowserClose ==
  /\ batch = "finally"
  /\ \/ /\ browser' = "closed"
        /\ batch' = "returned"
        /\ returned' = results
     \/ /\ browser' = "closeFailed"
        /\ batch' = "rejected"
        /\ UNCHANGED returned
  /\ UNCHANGED << callVars, results, taskVars, progress, ghostVars, launchError,
                  navigationError, overtaken >>

\* the steps of the task of one index
Task(i) ==
  \/ TaskStart(i)
  \/ NewContext(i)
  \/ NewPage(i)
  \/ Goto(i)
  \/ WaitForContent(i)
  \/ AnalyzeAndAct(i)
  \/ WaitForPageChange(i)
  \/ ContextClose(i)
  \/ TaskComplete(i)

Next ==
  \/ ReturnEmpty
  \/ ChromiumLaunch
  \/ ChromiumLaunchThrows
  \/ FillMissing
  \/ BrowserClose
  \/ \E i \in Targets : Task(i)

\* unsubscribeFromLinks(links, userInfo, {concurrency, onProgress}) on any batch
Spec == Init /\ [][Next]_vars

\* every external operation eventually returns or fails: the launch, every await
\* of a started task, the p-limit queue handing out a free slot, Promise.allSettled
\* resolving once all tasks have settled, and browser.close()
Fairness ==
  /\ WF_vars(ReturnEmpty)
  /\ WF_vars(ChromiumLaunch \/ ChromiumLaunchThrows)
  /\ \A i \in 1..MaxLinks : WF_vars(i \in Targets /\ Task(i))
  /\ WF_vars(FillMissing)
  /\ WF_vars(BrowserClose)

\* the batches on which termination is checked: up to two links under every cap,
\* three links one after the other
InitLive == Init /\ (Len(links) < MaxLinks \/ concurrency = 1)

\* unsubscribeFromLinks, every awaited operation settling
SpecLive == InitLive /\ [][Next]_vars /\ Fairness

\* lines 46-52: unsubscribeFromLink(link, userInfo), one link with concurrency 1
\* and no callback; its attempt loop is observed
InitLink ==
  /\ links = << 1 >>
  /\ concurrency = 1
  /\ onProgress = FALSE
  /\ batch = "called"
  /\ browser = "null"
  /\ results = [i \in Targets |-> Missing]
  /\ returned = << >>
  /\ pc = [i \in Targets |-> "queued"]
  /\ context = [i \in Targets |-> "none"]
  /\ attempt = [i \in Targets |-> 0]
  /\ actionHistory = [i \in Targets |-> << >>]
  /\ ret = [i \in Targets |-> Missing]
  /\ progress = [i \in Targets |-> [started |-> 0, completed |-> 0, result |-> Missing]]
  /\ calls = [i \in Targets |-> 0]
  /\ oracleCalls = [i \in Targets |-> 0]
  /\ domActions = [i \in Targets |-> 0]
  /\ last = [i \in Targets |-> NoTrace]
  /\ visible = [i \in Targets |-> "unread"]
  /\ noop = [i \in Targets |-> "init"]
  /\ seen = [i \in Targets |-> TextThrows]
  /\ wasLong = [i \in Targets |-> FALSE]
  /\ lastResult = [i \in Targets |-> NoResult]
  /\ waited = [i \in Targets |-> "none"]
  /\ closes = [i \in Targets |-> 0]
  /\ response = [i \in Targets |-> "none"]
  /\ launchError = FALSE
  /\ navigationError = [i \in Targets |-> FALSE]
  /\ overtaken = FALSE
  /\ probe = {1}
  /\ oracle = "any"
  /\ traced = {}
  /\ TextIdle
  /\ MessageIdle
  /\ ControlIdle
  /\ DomIdle
  /\ FrameIdle
  /\ HiddenIdle
  /\ RouteIdle
  /\ SyncIdle

NextLink ==
  \/ ChromiumLaunch
  \/ ChromiumLaunchThrows
  \/ FillMissing
  \/ BrowserClose
  \/ \E i \in Targets : Task(i)

SpecLink == InitLink /\ [][NextLink]_vars

\* lines 65-157: a batch of two links with cap 1 or 2; the attempt loop of the
\* first target is observed
InitPair ==
  /\ links = << 1, 2 >>
  /\ concurrency \in 1..2
  /\ onProgress = FALSE
  /\ batch = "called"
  /\ browser = "null"
  /\ results = [i \in Targets |-> Missing]
  /\ returned = << >>
  /\ pc = [i \in Targets |-> "queued"]
  /\ context = [i \in Targets |-> "none"]
  /\ attempt = [i \in Targets |-> 0]
  /\ actionHistory = [i \in Targets |-> << >>]
  /\ ret = [i \in Targets |-> Missing]
  /\ progress = [i \in Targets |-> [started |-> 0, completed |-> 0, result |-> Missing]]
  /\ calls = [i \in Targets |-> 0]
  /\ oracleCalls = [i \in Targets |-> 0]
  /\ domActions = [i \in Targets |-> 0]
  /\ last = [i \in Targets |-> NoTrace]
  /\ visible = [i \in Targets |-> "unread"]
  /\ noop = [i \in Targets |-> "init"]
  /\ seen = [i \in Targets |-> TextThrows]
  /\ wasLong = [i \in Targets |-> FALSE]
  /\ lastResult = [i \in Targets |-> NoResult]
  /\ waited = [i \in Targets |-> "none"]
  /\ closes = [i \in Targets |-> 0]
  /\ response = [i \in Targets |-> "none"]
  /\ launchError = FALSE
  /\ navigationError = [i \in Targets |-> FALSE]
  /\ overtaken = FALSE
  /\ probe = {1}
  /\ oracle = "plain"
  /\ traced = {}
  /\ TextIdle
  /\ MessageIdle
  /\ ControlIdle
  /\ DomIdle
  /\ FrameIdle
  /\ HiddenIdle
  /\ RouteIdle
  /\ SyncIdle

SpecPair == InitPair /\ [][NextLink]_vars

\* unsubscribeFromLink(link, userInfo) again, the elements of every extraction
\* pass and the element acted on observed too
InitAct ==
  /\ links = << 1 >>
  /\ concurrency = 1
  /\ onProgress = FALSE
  /\ batch = "called"
  /\ browser = "null"
  /\ results = [i \in Targets |-> Missing]
  /\ returned = << >>
  /\ pc = [i \in Targets |-> "queued"]
  /\ context = [i \in Targets |-> "none"]
  /\ attempt = [i \in Targets |-> 0]
  /\ actionHistory = [i \in Targets |-> << >>]
  /\ ret = [i \in Targets |-> Missing]
  /\ progress = [i \in Targets |-> [started |-> 0, completed |-> 0, result |-> Missing]]
  /\ calls = [i \in Targets |-> 0]
  /\ oracleCalls = [i \in Targets |-> 0]
  /\ domActions = [i \in Targets |-> 0]
  /\ last = [i \in Targets |-> NoTrace]
  /\ visible = [i \in Targets |-> "unread"]
  /\ noop = [i \in Targets |-> "init"]
  /\ seen = [i \in Targets |-> TextThrows]
  /\ wasLong = [i \in Targets |-> FALSE]
  /\ lastResult = [i \in Targets |-> NoResult]
  /\ waited = [i \in Targets |-> "none"]
  /\ closes = [i \in Targets |-> 0]
  /\ response = [i \in Targets |-> "none"]
  /\ launchError = FALSE
  /\ navigationError = [i \in Targets |-> FALSE]
  /\ overtaken = FALSE
  /\ probe = {1}
  /\ oracle = "any"
  /\ traced = {1}
  /\ TextIdle
  /\ MessageIdle
  /\ ControlIdle
  /\ DomIdle
  /\ FrameIdle
  /\ HiddenIdle
  /\ RouteIdle
  /\ SyncIdle

SpecAct == InitAct /\ [][NextLink]_vars

\* no batch is under way
BatchIdle ==
  /\ links = << >>
  /\ concurrency = UNSUBSCRIBE_CONCURRENCY
  /\ onProgress = FALSE
  /\ batch = "idle"
  /\ browser = "null"
  /\ results = << >>
  /\ returned = << >>
  /\ pc = << >>
  /\ context = << >>
  /\ attempt = << >>
  /\ actionHistory = << >>
  /\ ret = << >>
  /\ progress = << >>
  /\ calls = << >>
  /\ oracleCalls = << >>
  /\ domActions = << >>
  /\ last = << >>
  /\ visible = << >>
  /\ noop = << >>
  /\ seen = << >>
  /\ wasLong = << >>
  /\ lastResult = << >>
  /\ waited = << >>
  /\ closes = << >>
  /\ response = << >>
  /\ launchError = FALSE
  /\ navigationError = << >>
  /\ overtaken = FALSE
  /\ probe = {}
  /\ oracle = "plain"
  /\ traced = {}

batchVars == << links, concurrency, onProgress, batch, browser, results, returned,
               taskVars, progress, ghostVars, launchError, navigationError, overtaken,
               probe, oracle, traced >>

\* ---- isSuccessPage and isErrorPage called on their own ----

\* the texts the tests assert to be success pages
SuccessTexts ==
  { "You have been successfully unsubscribed.",
    "You are now unsubscribed from our mailing list.",
    "You are already unsubscribed from this list.",
    "You've been unsubscribed from all marketing emails.",
    "You have been unsubscribed.",
    "Your email preferences have been saved.",
    "Your preferences have been updated.",
    "Your settings have been saved successfully.",
    "Your changes have been saved.",
    "You have been removed from our mailing list.",
    "We've removed you from this list.",
    "You will no longer receive emails from us.",
    "Thank you for unsubscribing.",
    "Your opt-out is complete.",
    "Your subscription has been cancelled.",
    "Unsubscribe successful!",
    "{\"success\":true,\"message\":\"unsubscribed\"}" }

\* the texts the tests assert not to be success pages
Offers ==
  { "Please confirm your email preferences below.",
    "Click here to unsubscribe from all emails.",
    "Manage your email preferences",
    "Please log in to manage your subscriptions." }

\* the texts the tests assert to be error pages
ErrorTexts ==
  { "This unsubscribe link has expired.",
    "Invalid unsubscribe link.",
    "An error occurred while processing your request.",
    "Something went wrong. Please try again.",
    "Service unavailable. Please try again later.",
    "Unsubscribe failed. Please contact support." }

\* the texts the tests assert not to be error pages
NeutralTexts ==
  { "You have been unsubscribed successfully.",
    "Please select your email preferences.",
    "Confirm your unsubscribe request." }

\* the same wording in other letter cases, and a page that reports both
OtherTexts ==
  { "YOU HAVE BEEN UNSUBSCRIBED.",
    "Your Subscription Has Been Canceled",
    "THIS LINK HAS EXPIRED",
    "unsubscribe request failed",
    "You have been unsubscribed from Daily Deals. Something went wrong with your other subscriptions, please try again later." }

\* what a page shows before and after the sentence
Before == {"", "Acme Newsletter\n", "Hello Jane, "}
After == {"", " Click here to resubscribe.", "\nQuestions? Contact support."}

TextInputs ==
  { b \o t \o a : b \in Before, a \in After,
                  t \in SuccessTexts \cup Offers \cup ErrorTexts \cup NeutralTexts
                          \cup OtherTexts }

InitText ==
  /\ BatchIdle
  /\ MessageIdle
  /\ ControlIdle
  /\ DomIdle
  /\ FrameIdle
  /\ HiddenIdle
  /\ RouteIdle
  /\ SyncIdle
  /\ text \in TextInputs
  /\ matched = Missing

\* isSuccessPage(text) and isErrorPage(text)
TestPatterns ==
  /\ matched = Missing
  /\ matched' = [success |-> isSuccessPage(text), error |-> isErrorPage(text)]
  /\ UNCHANGED << batchVars, text, message, friendly, control, extracted, domVars, frameVars, hiddenVars, routeVars, syncVars >>

NextText == TestPatterns

SpecText == InitText /\ [][NextText]_vars

\* ---- friendlyUnsubscribeErrorMessage ----

LikelyBlocking ==
  "This website is likely blocking automated unsubscribe. Please unsubscribe manually."
TookTooLong == "Page took too long to load. Please try again."
NotFound == "Unsubscribe page not found (404). The link may be expired."
CouldNotReach == "Could not reach the unsubscribe page. Please try again."
CouldNotFindButton == "Could not find unsubscribe button. Please try again."
SomethingWentWrong == "Something went wrong. Please try again."
UnsubscribeFailed == "Unsubscribe failed. Please try again."

\* lines 23-62 of lib/error-messages.ts
friendlyUnsubscribeErrorMessage(m) ==
  IF \/ Includes(m, "ERR_HTTP2_PROTOCOL_ERROR")
     \/ Includes(m, "ERR_CONNECTION_RESET")
     \/ Includes(m, "ERR_CONNECTION_REFUSED")
     \/ Includes(toLowerCase(m), "captcha")
     \/ Includes(toLowerCase(m), "anti-bot")
     \/ Includes(toLowerCase(m), "bot/verification")
     \/ Includes(toLowerCase(m), "blocked")
     \/ Includes(toLowerCase(m), "verify you're human")
    THEN LikelyBlocking
  ELSE IF Includes(m, "Timeout") \/ Includes(m, "timeout") THEN TookTooLong
  ELSE IF Includes(m, "404") THEN NotFound
  ELSE IF Includes(m, "Navigation failed") \/ Includes(m, "net::ERR_") THEN CouldNotReach
  ELSE IF Includes(m, "No interactive elements") THEN CouldNotFindButton
  ELSE IF Includes(m, "AI response") THEN SomethingWentWrong
  ELSE IF Len(m) > 100 THEN UnsubscribeFailed
  ELSE m

\* the messages the tests pass, the messages of the agent's results, and messages
\* of errors the browser throws
TestMessages ==
  { "Timeout 20000ms exceeded", "timeout waiting for element",
    "No interactive elements found", "Navigation failed", "net::ERR_CONNECTION_REFUSED",
    "AI response parsing failed", "Custom error", "Link expired" }
AgentMessages ==
  { "Unsubscribe failed - error on page", "Invalid element index", "Invalid AI action",
    "Could not complete unsubscribe after multiple attempts", "Unknown error",
    "Page shows a CAPTCHA" }
NetworkMessages ==
  { "net::ERR_NAME_NOT_RESOLVED", "net::ERR_CONNECTION_RESET", "net::ERR_ABORTED",
    "net::ERR_HTTP2_PROTOCOL_ERROR", "net::ERR_CERT_DATE_INVALID",
    "net::ERR_CONNECTION_TIMED_OUT" }

\* what precedes and follows the message proper in error.message
MessagePrefixes == {"", "page.goto: ", "Navigation failed: "}
MessageSuffixes ==
  { "", " at https://example.com/unsubscribe",
    "\nCall log:\n  - navigating to \"https://example.com/unsubscribe?u=0123456789abcdef\", waiting until \"domcontentloaded\"" }

MessageInputs ==
  { p \o m \o x : p \in MessagePrefixes, x \in MessageSuffixes,
                  m \in TestMessages \cup AgentMessages \cup NetworkMessages }

InitMessage ==
  /\ BatchIdle
  /\ TextIdle
  /\ ControlIdle
  /\ DomIdle
  /\ FrameIdle
  /\ HiddenIdle
  /\ RouteIdle
  /\ SyncIdle
  /\ message \in MessageInputs
  /\ friendly = Missing

\* friendlyUnsubscribeErrorMessage(message)
FriendlyMessage ==
  /\ friendly = Missing
  /\ friendly' = [value |-> friendlyUnsubscribeErrorMessage(message)]
  /\ UNCHANGED << batchVars, text, matched, message, control, extracted, domVars, frameVars, hiddenVars, routeVars, syncVars >>

NextMessage == FriendlyMessage

SpecMessage == InitMessage /\ [][NextMessage]_vars

\* ---- getInteractiveElements on one checkbox or radio ----

\* the elements findLabelInfo looks for, in the order it looks for them:
\* aria-labelledby, label[for=id], the enclosing label, another cell of the same
\* table row, the element after the parent
LabelSources == 1..5
AriaLabelledBy == 1
LabelFor == 2
ParentLabel == 3
RowCell == 4
NextSibling == 5

\* textContent.trim() of such an element
LabelTexts == {"", "Weekly digest", "option"}

\* such an element: its text, and hasHiddenAncestor of it
NoSource == [present |-> FALSE]
Source(t, h) == [present |-> TRUE, text |-> t, hidden |-> h]
Sources == {Source(t, h) : t \in LabelTexts, h \in BOOLEAN}

SourceLists ==
  { f \in [LabelSources -> Sources \cup {NoSource}] :
      Cardinality({k \in LabelSources : f[k].present}) <= MaxLabelSources }

\* an input of type checkbox or radio as the pass sees it: hidden is
\* hasHiddenAncestor(el), visible is isElementVisible(checkElement); an enclosing
\* label that is hidden hides the control too
Controls ==
  { c \in [ type : {"checkbox", "radio"}, disabled : BOOLEAN, hidden : BOOLEAN,
            sources : SourceLists, ariaLabel : {"", "Digest"}, name : {"", "digest"},
            visible : BOOLEAN, checked : BOOLEAN ] :
      c.sources[ParentLabel].present /\ c.sources[ParentLabel].hidden => c.hidden }

\* text.substring(0, 50)
Substring50(t) == SubSeq(t, 1, IF Len(t) < 50 THEN Len(t) ELSE 50)

\* lines 833-911; sourceElement 0 is null
findLabelInfo(c) ==
  LET found == {k \in LabelSources : c.sources[k].present /\ Len(c.sources[k].text) > 0}
  IN IF found # {}
       THEN LET k == CHOOSE k \in found : \A j \in found : k <= j
            IN [text |-> Substring50(c.sources[k].text), sourceElement |-> k]
     ELSE IF c.ariaLabel # ""
       THEN [text |-> Substring50(c.ariaLabel), sourceElement |-> 0]
     ELSE [text |-> IF c.name # "" THEN c.name ELSE "option", sourceElement |-> 0]

Dropped == [dropped |-> TRUE]

\* lines 970-1008 and 1011-1049: what the pass pushes for the control
ExtractToggle(c) ==
  LET info == findLabelInfo(c)
      hasVisibleLabel == info.text # "" /\ info.text # "option"
  IN IF c.disabled THEN Dropped
     ELSE IF c.hidden THEN Dropped
     ELSE IF hasVisibleLabel /\ info.sourceElement # 0
               /\ c.sources[info.sourceElement].hidden
       THEN Dropped
     ELSE IF ~hasVisibleLabel /\ ~c.visible THEN Dropped
     ELSE [domIndex |-> 0, elementType |-> c.type, text |-> info.text,
           checked |-> c.checked]

InitControl ==
  /\ BatchIdle
  /\ TextIdle
  /\ MessageIdle
  /\ DomIdle
  /\ FrameIdle
  /\ HiddenIdle
  /\ RouteIdle
  /\ SyncIdle
  /\ control \in Controls
  /\ extracted = Missing

\* the forEach callback of getInteractiveElements on the control
ExtractControl ==
  /\ control # Missing
  /\ extracted = Missing
  /\ extracted' = ExtractToggle(control)
  /\ UNCHANGED << batchVars, text, matched, message, friendly, control, domVars, frameVars, hiddenVars, routeVars, syncVars >>

NextControl == ExtractControl

SpecControl == InitControl /\ [][NextControl]_vars

\* ---- getInteractiveElements on a whole document ----

\* the elements querySelectorAll('button, input, textarea, [role="button"],
\* [role="switch"], a') returns: the tag, the type attribute and the role
\* attribute ("" when absent)
Shape(t, ty, r) == [tagName |-> t, type |-> ty, role |-> r]
Shapes ==
  { Shape("button", "", ""), Shape("input", "submit", ""),
    Shape("input", "checkbox", ""), Shape("input", "checkbox", "switch"),
    Shape("input", "radio", ""), Shape("input", "text", ""), Shape("input", "", ""),
    Shape("textarea", "", ""), Shape("a", "", "") }

\* a node: its shape, and whether one of the returns that precede the push fired
\* for it (disabled, hasHiddenAncestor, a hidden label source, isElementVisible,
\* the wording test of a link)
Nodes == { [shape |-> s, filtered |-> f] : s \in Shapes, f \in BOOLEAN }
Documents == UNION { [1..n -> Nodes] : n \in 0..MaxNodes }

\* line 929: el.type, the reflected property, lower-cased
inputType(s) ==
  IF s.tagName = "input" THEN (IF s.type = "" THEN "text" ELSE s.type)
  ELSE IF s.tagName = "button" THEN "submit"
  ELSE IF s.tagName = "textarea" THEN "textarea"
  ELSE ""

\* lines 933-939, 970, 1011, 1052-1056, 1132: the branch of the callback that
\* takes the element
Branch(s) ==
  IF s.tagName = "button" \/ inputType(s) \in {"submit", "button"}
       \/ s.role \in {"button", "switch"}
    THEN "button"
  ELSE IF s.tagName = "input" /\ inputType(s) = "checkbox" THEN "checkbox"
  ELSE IF s.tagName = "input" /\ inputType(s) = "radio" THEN "radio"
  ELSE IF s.tagName = "textarea"
            \/ (s.tagName = "input" /\ inputType(s) \in {"text", "email", ""})
    THEN "input"
  ELSE IF s.tagName = "a" THEN "link"
  ELSE "none"

\* lines 961-962, 1122, 1190-1193: the CSS selector the locator of a kind is built
\* from, as a test on the element
SelectorMatches(kind, s) ==
  CASE kind = "button" ->
         \/ s.tagName = "button"
         \/ s.tagName = "input" /\ s.type \in {"submit", "button"}
         \/ s.role \in {"button", "switch"}
    [] kind = "checkbox" -> s.tagName = "input" /\ s.type = "checkbox"
    [] kind = "radio" -> s.tagName = "input" /\ s.type = "radio"
    [] kind = "input" ->
         \/ s.tagName = "input" /\ s.type \in {"text", "email"}
         \/ s.tagName = "textarea"
    [] OTHER -> FALSE

NoIndices == [button |-> 0, checkbox |-> 0, radio |-> 0, input |-> 0]

\* lines 922-1166: the forEach from node k on; domIndices counts the pushes of
\* each kind.  node is the position in the document of the element a record was
\* pushed for (not a field of the record)
RECURSIVE Pass(_, _, _)
Pass(doc, k, domIndices) ==
  IF k > Len(doc) THEN << >>
  ELSE LET kind == Branch(doc[k].shape)
       IN IF doc[k].filtered \/ kind = "none" THEN Pass(doc, k + 1, domIndices)
          ELSE IF kind = "link"
            THEN << [elementType |-> "link", domIndex |-> -1, node |-> k] >>
                   \o Pass(doc, k + 1, domIndices)
          ELSE << [elementType |-> kind, domIndex |-> domIndices[kind], node |-> k] >>
                 \o Pass(doc, k + 1, [domIndices EXCEPT ![kind] = @ + 1])

\* locator(selector).nth(n): the position in the document of the n-th element,
\* counted from 0, that the selector matches; 0 when there is none
Nth(doc, kind, n) ==
  LET hits == {k \in 1..Len(doc) : SelectorMatches(kind, doc[k].shape)}
      at == {k \in hits : Cardinality({j \in hits : j < k}) = n}
  IN IF at = {} THEN 0 ELSE CHOOSE k \in at : TRUE

\* lines 1177-1215: the element returned for a record; a link is looked up by
\* role and name
Locate(doc, data) ==
  [type |-> data.elementType, node |-> data.node,
   locator |-> IF data.elementType = "link" THEN data.node
               ELSE Nth(doc, data.elementType, data.domIndex)]

getInteractiveElements(doc) ==
  LET elementData == Pass(doc, 1, NoIndices)
  IN [j \in 1..Len(elementData) |-> Locate(doc, elementData[j])]

InitDom ==
  /\ BatchIdle
  /\ TextIdle
  /\ MessageIdle
  /\ ControlIdle
  /\ FrameIdle
  /\ HiddenIdle
  /\ RouteIdle
  /\ SyncIdle
  /\ document \in Documents
  /\ located = Missing
  /\ acted = Missing

\* getInteractiveElements(frame) on the document
GetInteractiveElements ==
  /\ located = Missing
  /\ located' = [elements |-> getInteractiveElements(document)]
  /\ UNCHANGED << batchVars, text, matched, message, friendly, control, extracted,
                  document, acted, frameVars, hiddenVars, routeVars, syncVars >>

\* lines 637-706 on the elements of the pass: action.element is checked against
\* the list, and the click or fill goes to the node the locator of elements[idx]
\* resolves to; node 0 when nothing is clicked or filled
ActOnElement ==
  /\ located # Missing
  /\ acted = Missing
  /\ \E n \in 0..(MaxNodes + 1) :
       LET idx == n - 1
       IN acted' = [element |-> n,
                    node |-> IF n # 0 /\ idx >= 0 /\ idx < Len(located.elements)
                               THEN located.elements[idx + 1].locator
                               ELSE 0]
  /\ UNCHANGED << batchVars, text, matched, message, friendly, control, extracted,
                  document, located, frameVars, hiddenVars, routeVars, syncVars >>

NextDom == GetInteractiveElements \/ ActOnElement

SpecDom == InitDom /\ [][NextDom]_vars

\* ---- getFrameContent ----

\* body texts of 50 and of 51 characters
Text50 == "Manage the email preferences of your subscription."
Text51 == "Manage the email preferences of your subscriptions."

\* locator("body").innerText() of a document: it rejects, or resolves with a text
Bodies == { [rejects |-> r, text |-> t] : r \in BOOLEAN, t \in {Text50, Text51} }
           \ { [rejects |-> TRUE, text |-> Text51] }

\* a document: its body, whether locator("iframe").count() throws in it, and the
\* documents of its iframes in document order
Doc(b, c, fs) == [body |-> b, countThrows |-> c, iframes |-> fs]

\* documents three levels down, two levels down, one level down, and the page
Level3 == { Doc([rejects |-> FALSE, text |-> Text51], FALSE, << >>) }
Level2 ==
  { Doc(b, FALSE, fs) : b \in Bodies, fs \in UNION { [1..n -> Level3] : n \in 0..MaxNested } }
Level1 ==
  { Doc(b, c, fs) : b \in Bodies, c \in BOOLEAN,
                    fs \in UNION { [1..n -> Level2] : n \in 0..MaxNested } }
Pages ==
  { Doc(b, c, fs) : b \in Bodies, c \in BOOLEAN,
                    fs \in UNION { [1..n -> Level1] : n \in 0..MaxFrames } }

\* lines 246-249, 260-263, 274-277: innerText().catch(() => "")
innerText(d) == IF d.body.rejects THEN "" ELSE d.body.text

\* the frame is named by its path from the page: << >> is the page, << 1 >> its
\* first iframe, << 1, 1 >> the first iframe of that one
FrameContent(f, t) == [throws |-> FALSE, frame |-> f, text |-> t]
CountThrows == [throws |-> TRUE, frame |-> << >>, text |-> ""]

\* lines 242-292
getFrameContent(p) ==
  LET mainText == innerText(p)
      top == FrameContent(<< >>, mainText)
  IN IF Len(mainText) > 50 THEN top
     ELSE IF p.countThrows THEN CountThrows          \* line 256, outside the try
     ELSE IF Len(p.iframes) > 0
       THEN LET iframe1 == p.iframes[1]
                iframe1Text == innerText(iframe1)
            IN IF Len(iframe1Text) > 50 THEN FrameContent(<< 1 >>, iframe1Text)
               ELSE IF iframe1.countThrows THEN top   \* line 271, caught at 286
               ELSE IF Len(iframe1.iframes) > 0
                 THEN LET iframe2Text == innerText(iframe1.iframes[1])
                      IN IF Len(iframe2Text) > 50
                           THEN FrameContent(<< 1, 1 >>, iframe2Text)
                           ELSE top
               ELSE top
     ELSE top

InitFrame ==
  /\ BatchIdle
  /\ TextIdle
  /\ MessageIdle
  /\ ControlIdle
  /\ DomIdle
  /\ HiddenIdle
  /\ RouteIdle
  /\ SyncIdle
  /\ page \in Pages
  /\ content = Missing

\* getFrameContent(page)
GetFrameContent ==
  /\ page # Missing
  /\ content = Missing
  /\ content' = getFrameContent(page)
  /\ UNCHANGED << batchVars, text, matched, message, friendly, control, extracted,
                  domVars, page, hiddenVars, routeVars, syncVars >>

NextFrame == GetFrameContent

SpecFrame == InitFrame /\ [][NextFrame]_vars

\* ---- getInteractiveElements: the hidden-ancestor filter ----

\* the computed style of a node, the properties the two visibility walks read
Shown ==
  [display |-> "block", visibility |-> "visible", overflow |-> "visible",
   height |-> "10px", maxHeight |-> "none", opacity |-> "1"]
ComputedStyles ==
  {Shown,
   [Shown EXCEPT !.display = "none"],
   [Shown EXCEPT !.visibility = "hidden"],
   [Shown EXCEPT !.overflow = "hidden"],
   [Shown EXCEPT !.overflow = "hidden", !.height = "0px"],
   [Shown EXCEPT !.overflow = "hidden", !.maxHeight = "0px"],
   [Shown EXCEPT !.height = "0px"],
   [Shown EXCEPT !.opacity = "0"]}

\* parseFloat(length) === 0
ParsesToZero(length) == length = "0px"

\* a path is the element followed by its ancestors, document.body among them
Ancestor(tag, style) == [tag |-> tag, style |-> style]
RECURSIVE PathsBelowBody(_)
PathsBelowBody(k) ==
  IF k = 0 THEN {<< >>}
  ELSE LET shorter == PathsBelowBody(k - 1)
       IN shorter \cup {Append(q, Ancestor("div", st)) :
                          q \in {x \in shorter : Len(x) = k - 1}, st \in ComputedStyles}
Paths ==
  {q \o << Ancestor("body", st), Ancestor("html", Shown) >> :
     q \in PathsBelowBody(MaxDepth) \ {<< >>},
     st \in {Shown, [Shown EXCEPT !.display = "none"]}}

ElementKinds == {"button", "checkbox", "radio", "input", "link"}
\* an element the pass meets: labelled says that usable text was found for it (for
\* a link, text that matches the keyword pattern); sourceHidden that the element
\* the label text came from has a hidden ancestor; check is the place on the path
\* of the element an unlabelled checkbox or radio is size-checked at
Element(kind, labelled, sourceHidden, check, path) ==
  [kind |-> kind, labelled |-> labelled, sourceHidden |-> sourceHidden,
   check |-> check, path |-> path]
Elements ==
  {Element(kind, labelled, FALSE, 1, path) :
     kind \in {"button", "input", "link"}, labelled \in BOOLEAN, path \in Paths}
  \cup {Element(kind, TRUE, sourceHidden, 1, path) :
          kind \in {"checkbox", "radio"}, sourceHidden \in BOOLEAN, path \in Paths}
  \cup {Element(kind, FALSE, FALSE, check, path) :
          kind \in {"checkbox", "radio"}, check \in 1..MaxDepth, path \in Paths}

\* lines 786-795: the tests on one node of the walk
HardHidden(style) ==
  \/ style.display = "none"
  \/ style.visibility = "hidden"
  \/ /\ style.overflow = "hidden"
     /\ ParsesToZero(style.height) \/ ParsesToZero(style.maxHeight)

RECURSIVE HiddenFrom(_, _)
HiddenFrom(path, k) ==
  IF k > Len(path) \/ path[k].tag = "body" THEN FALSE
  ELSE IF HardHidden(path[k].style) THEN TRUE
  ELSE HiddenFrom(path, k + 1)

\* only the element itself is tested
hasHiddenSelf(path) == HardHidden(path[1].style)

\* lines 783-802: hasHiddenAncestor(el), from el up to document.body, exclusive
hasHiddenAncestor(path) == HiddenFrom(path, 1)

\* lines 806-830: isElementVisible(el) from the k-th node of the path; every node
\* of a path has a box that is not 0 by 0
RECURSIVE isElementVisible(_, _)
isElementVisible(path, k) ==
  IF k > Len(path) \/ path[k].tag = "body" THEN TRUE
  ELSE LET style == path[k].style
       IN IF \/ style.display = "none"
             \/ style.visibility = "hidden"
             \/ style.opacity = "0"
             \/ style.overflow = "hidden" /\ ParsesToZero(style.maxHeight)
            THEN FALSE
            ELSE isElementVisible(path, k + 1)

\* lines 926-1166: whether the pass pushes an entry for the element
Pushes(el) ==
  IF hasHiddenAncestor(el.path) THEN FALSE
  ELSE CASE el.kind \in {"button", "input"} ->
              el.labelled \/ isElementVisible(el.path, 1)
         [] el.kind \in {"checkbox", "radio"} ->
              IF el.labelled THEN ~el.sourceHidden
              ELSE isElementVisible(el.path, el.check)
         [] el.kind = "link" -> el.labelled

InitHidden ==
  /\ BatchIdle
  /\ TextIdle
  /\ MessageIdle
  /\ ControlIdle
  /\ DomIdle
  /\ FrameIdle
  /\ RouteIdle
  /\ SyncIdle
  /\ node \in Elements
  /\ pushed = Missing

\* the callback of the forEach at line 926, on one element
VisitElement ==
  /\ node # Missing
  /\ pushed = Missing
  /\ pushed' = [value |-> Pushes(node)]
  /\ UNCHANGED << batchVars, text, matched, message, friendly, control, extracted,
                  domVars, frameVars, node, routeVars, syncVars >>

NextHidden == VisitElement

SpecHidden == InitHidden /\ [][NextHidden]_vars

\* ---- the unsubscribe route: POST of the server-sent event stream ----

\* a selected email: its id is its place in the request
Email(id, link, account) == [id |-> id, unsubscribeLink |-> link, account |-> account]
RECURSIVE SelectionsUpTo(_)
SelectionsUpTo(k) ==
  IF k = 0 THEN {<< >>}
  ELSE LET shorter == SelectionsUpTo(k - 1)
       IN shorter \cup {Append(sel, Email(k, link, account)) :
                          sel \in {x \in shorter : Len(x) = k - 1},
                          link \in 1..2, account \in 1..MaxAccounts}
Selections == SelectionsUpTo(MaxEmails) \ {<< >>}

\* lines 82-88: the keys of emailsByAccount, in insertion order
RECURSIVE AccountsOf(_)
AccountsOf(sel) ==
  IF sel = << >> THEN << >>
  ELSE LET before == AccountsOf(SubSeq(sel, 1, Len(sel) - 1))
           account == sel[Len(sel)].account
       IN IF \E k \in 1..Len(before) : before[k] = account
            THEN before
            ELSE Append(before, account)
\* lines 82-88, 102: the emails of the account being processed
AccountEmailsOf(sel, g) ==
  LET account == AccountsOf(sel)[g]
      RECURSIVE Of(_)
      Of(k) == IF k = 0 THEN << >>
               ELSE IF sel[k].account = account
                      THEN Append(Of(k - 1), sel[k])
                      ELSE Of(k - 1)
  IN Of(Len(sel))
accountEmails == AccountEmailsOf(emails, group)

\* lines 112-114, 121: linkToEmail.get(progress.link); of the emails that share a
\* link the Map keeps the last one
EmailOfLink(batchEmails, index) ==
  LET link == batchEmails[index].unsubscribeLink
      kept == CHOOSE k \in 1..Len(batchEmails) :
                /\ batchEmails[k].unsubscribeLink = link
                /\ \A j \in 1..Len(batchEmails) :
                     batchEmails[j].unsubscribeLink = link => j <= k
  IN batchEmails[kept]

Operation(id, success) == [emailId |-> id, success |-> success, settled |-> FALSE]

InitRoute ==
  /\ BatchIdle
  /\ TextIdle
  /\ MessageIdle
  /\ ControlIdle
  /\ DomIdle
  /\ FrameIdle
  /\ HiddenIdle
  /\ SyncIdle
  /\ emails \in Selections
  /\ stage = "start"
  /\ group = 0
  /\ tasks = << >>
  /\ pendingOperations = << >>
  /\ routeResults = << >>
  /\ succeeded = 0
  /\ failed = 0
  /\ statusUpdates = [id \in 1..Len(emails) |-> 0]
  /\ complete = Missing

\* lines 102-117, 233: the next account's links are handed to unsubscribeFromLinks
\* (the first time, after the start event of lines 73-79)
CallUnsubscribeFromLinks ==
  /\ stage \in {"start", "next"}
  /\ group < Len(AccountsOf(emails))
  /\ group' = group + 1
  /\ tasks' = [k \in 1..Len(AccountEmailsOf(emails, group + 1)) |-> "queued"]
  /\ pendingOperations' = << >>
  /\ stage' = "batch"
  /\ UNCHANGED << batchVars, text, matched, message, friendly, control, extracted,
                  domVars, frameVars, hiddenVars, emails, routeResults, succeeded,
                  failed, statusUpdates, complete, syncVars >>

\* part_001 lines 100, 141-149: the launch throws; unsubscribeFromLinks returns one
\* failure per link and has called onProgress for none; line 233 drops the array
LaunchFails ==
  /\ stage = "batch"
  /\ \A k \in 1..Len(tasks) : tasks[k] = "queued"
  /\ tasks' = [k \in 1..Len(tasks) |-> "unreported"]
  /\ stage' = "operations"
  /\ UNCHANGED << batchVars, text, matched, message, friendly, control, extracted,
                  domVars, frameVars, hiddenVars, emails, group, pendingOperations,
                  routeResults, succeeded, failed, statusUpdates, complete, syncVars >>

\* part_001 line 111, lines 124-136: "started" is reported, a processing event is sent
TaskStarted(k) ==
  /\ stage = "batch"
  /\ tasks[k] = "queued"
  /\ tasks' = [tasks EXCEPT ![k] = "started"]
  /\ UNCHANGED << batchVars, text, matched, message, friendly, control, extracted,
                  domVars, frameVars, hiddenVars, emails, stage, group,
                  pendingOperations, routeResults, succeeded, failed, statusUpdates,
                  complete, syncVars >>

\* part_001 lines 113-124, lines 138-229: processUnsubscribe returned, "completed"
\* is reported with the result and handleProgress queues the database operation
TaskCompleted(k) ==
  /\ stage = "batch"
  /\ tasks[k] = "started"
  /\ tasks' = [tasks EXCEPT ![k] = "completed"]
  /\ \E success \in BOOLEAN :
       pendingOperations' =
         Append(pendingOperations, Operation(EmailOfLink(accountEmails, k).id, success))
  /\ UNCHANGED << batchVars, text, matched, message, friendly, control, extracted,
                  domVars, frameVars, hiddenVars, emails, stage, group, routeResults,
                  succeeded, failed, statusUpdates, complete, syncVars >>

\* part_001 lines 113-118, 173, 238: processUnsubscribe rejected; nothing is reported
TaskRejected(k) ==
  /\ stage = "batch"
  /\ tasks[k] = "started"
  /\ tasks' = [tasks EXCEPT ![k] = "rejected"]
  /\ UNCHANGED << batchVars, text, matched, message, friendly, control, extracted,
                  domVars, frameVars, hiddenVars, emails, stage, group,
                  pendingOperations, routeResults, succeeded, failed, statusUpdates,
                  complete, syncVars >>

\* lines 142-227: one queued operation runs to its end: the update of the email's
\* status, then the counter, the push and the progress event; when an update
\* throws, the catch block updates the status and records a failure
OperationSettles(n) ==
  /\ stage \in {"batch", "operations"}
  /\ n \in 1..Len(pendingOperations)
  /\ ~pendingOperations[n].settled
  /\ pendingOperations' = [pendingOperations EXCEPT ![n].settled = TRUE]
  /\ LET op == pendingOperations[n]
     IN /\ statusUpdates' = [statusUpdates EXCEPT ![op.emailId] = @ + 1]
        /\ \E thrown \in BOOLEAN :
             LET success == op.success /\ ~thrown
             IN /\ routeResults' =
                     Append(routeResults, [emailId |-> op.emailId, success |-> success])
                /\ succeeded' = IF success THEN succeeded + 1 ELSE succeeded
                /\ failed' = IF success THEN failed ELSE failed + 1
  /\ UNCHANGED << batchVars, text, matched, message, friendly, control, extracted,
                  domVars, frameVars, hiddenVars, emails, stage, group, tasks,
                  complete, syncVars >>

\* part_001 lines 105-140, 150-156, line 233: every task has settled and
\* unsubscribeFromLinks returns, or rejects when browser.close() throws
UnsubscribeFromLinksReturns ==
  /\ stage = "batch"
  /\ \A k \in 1..Len(tasks) : tasks[k] \in {"completed", "rejected"}
  /\ stage' \in {"operations", "errored"}
  /\ UNCHANGED << batchVars, text, matched, message, friendly, control, extracted,
                  domVars, frameVars, hiddenVars, emails, group, tasks,
                  pendingOperations, routeResults, succeeded, failed, statusUpdates,
                  complete, syncVars >>

\* line 240: Promise.all(pendingOperations) resolves, the loop goes to the next account
OperationsSettled ==
  /\ stage = "operations"
  /\ \A n \in 1..Len(pendingOperations) : pendingOperations[n].settled
  /\ stage' = "next"
  /\ UNCHANGED << batchVars, text, matched, message, friendly, control, extracted,
                  domVars, frameVars, hiddenVars, emails, group, tasks,
                  pendingOperations, routeResults, succeeded, failed, statusUpdates,
                  complete, syncVars >>

\* lines 243-253: after the last account the complete event is sent
SendComplete ==
  /\ stage = "next"
  /\ group = Len(AccountsOf(emails))
  /\ complete' = [total |-> Len(emails), processed |-> Len(emails),
                  succeeded |-> succeeded, failed |-> failed, results |-> routeResults]
  /\ stage' = "complete"
  /\ UNCHANGED << batchVars, text, matched, message, friendly, control, extracted,
                  domVars, frameVars, hiddenVars, emails, group, tasks,
                  pendingOperations, routeResults, succeeded, failed, statusUpdates, syncVars >>

NextRoute ==
  \/ CallUnsubscribeFromLinks
  \/ LaunchFails
  \/ \E k \in 1..Len(tasks) : TaskStarted(k) \/ TaskCompleted(k) \/ TaskRejected(k)
  \/ \E n \in 1..Len(pendingOperations) : OperationSettles(n)
  \/ UnsubscribeFromLinksReturns
  \/ OperationsSettled
  \/ SendComplete

SpecRoute == InitRoute /\ [][NextRoute]_vars

\* ---- SyncProvider: manual and automatic sync ----

\* a state change is followed by its render and the effects of that render in one
\* step; what outlives a render is the timeout, whose callback calls the
\* performSync of the render that scheduled it

\* lines 947-949: setTimeout(() => performSync(), timeToWait), scheduled by a
\* render whose isSyncing was `syncing`
Timeout(syncing) == [isSyncing |-> syncing]

\* lines 851-860: performSync as created by a render whose isSyncing was `syncing`:
\* it returns at once, or sets the state and sends the request
performSync(syncing) ==
  IF syncing
    THEN UNCHANGED << isSyncing, inFlight, progressText, isError >>
    ELSE /\ Len(inFlight) < MaxRequests
         /\ isSyncing' = TRUE
         /\ progressText' = "Fetching emails..."
         /\ isError' = FALSE
         /\ inFlight' = Append(inFlight, "fetch")

InitSync ==
  /\ BatchIdle
  /\ TextIdle
  /\ MessageIdle
  /\ ControlIdle
  /\ DomIdle
  /\ FrameIdle
  /\ HiddenIdle
  /\ RouteIdle
  /\ isSyncing = FALSE
  /\ isAutoSyncEnabled = FALSE
  /\ isAutoSyncInitialized = FALSE
  /\ timer = Missing
  /\ inFlight = << >>
  /\ progressText = "null"
  /\ isError = FALSE

\* lines 836-842, then the effects of the render that follows (953-972): the
\* stored preference is loaded; when it is on, the effect of line 953 calls
\* performSync and the effect of line 968, in the same render, scheduleNextSync
Mount ==
  /\ ~isAutoSyncInitialized
  /\ isAutoSyncInitialized' = TRUE
  /\ \E stored \in BOOLEAN :
       /\ isAutoSyncEnabled' = stored
       /\ IF stored
            THEN performSync(isSyncing) /\ timer' = Timeout(isSyncing)
            ELSE UNCHANGED << isSyncing, inFlight, progressText, isError, timer >>
  /\ UNCHANGED << batchVars, text, matched, message, friendly, control, extracted,
                  domVars, frameVars, hiddenVars, routeVars >>

\* lines 997, 953-972: setAutoSyncEnabled(enabled) and the effects of its render
SetAutoSyncEnabled(enabled) ==
  /\ isAutoSyncInitialized
  /\ enabled # isAutoSyncEnabled
  /\ isAutoSyncEnabled' = enabled
  /\ IF enabled /\ ~isSyncing
       THEN performSync(isSyncing) /\ timer' = Timeout(isSyncing)
       ELSE /\ UNCHANGED << isSyncing, inFlight, progressText, isError >>
            /\ timer' = IF enabled THEN timer ELSE Missing
  /\ UNCHANGED << batchVars, text, matched, message, friendly, control, extracted,
                  domVars, frameVars, hiddenVars, routeVars, isAutoSyncInitialized >>

\* lines 981-987: triggerSync of the last render; the render that follows has
\* isSyncing true, its effect at 968 does nothing and the timeout stays
TriggerSync ==
  /\ isAutoSyncInitialized
  /\ ~isSyncing
  /\ performSync(isSyncing)
  /\ UNCHANGED << batchVars, text, matched, message, friendly, control, extracted,
                  domVars, frameVars, hiddenVars, routeVars, isAutoSyncEnabled,
                  isAutoSyncInitialized, timer >>

\* lines 947-949: the timeout expires and calls the performSync it was given
TimerExpires ==
  /\ timer # Missing
  /\ performSync(timer.isSyncing)
  /\ timer' = Missing
  /\ UNCHANGED << batchVars, text, matched, message, friendly, control, extracted,
                  domVars, frameVars, hiddenVars, routeVars, isAutoSyncEnabled,
                  isAutoSyncInitialized >>

\* lines 869-891: a request's stream sends start or progress
StreamProgress(n) ==
  /\ n \in 1..Len(inFlight)
  /\ inFlight[n] = "fetch"
  /\ inFlight' = [inFlight EXCEPT ![n] = "stream"]
  /\ progressText' = "processed"
  /\ UNCHANGED << batchVars, text, matched, message, friendly, control, extracted,
                  domVars, frameVars, hiddenVars, routeVars, isSyncing,
                  isAutoSyncEnabled, isAutoSyncInitialized, timer, isError >>

\* lines 892-933, 968-972: a request ends with a complete event, an error event
\* or an exception; finally sets isSyncing to false, and when that changes the
\* state, the effect of the next render calls scheduleNextSync
SyncEnds(n) ==
  /\ n \in 1..Len(inFlight)
  /\ inFlight' = SubSeq(inFlight, 1, n - 1) \o SubSeq(inFlight, n + 1, Len(inFlight))
  /\ \E how \in {"complete", "error", "thrown"} :
       /\ progressText' = CASE how = "complete" -> "Done!"
                             [] how = "error" -> "message"
                             [] how = "thrown" -> "Error"
       /\ isError' = (how # "complete")
  /\ isSyncing' = FALSE
  /\ timer' = IF isSyncing /\ isAutoSyncEnabled THEN Timeout(FALSE) ELSE timer
  /\ UNCHANGED << batchVars, text, matched, message, friendly, control, extracted,
                  domVars, frameVars, hiddenVars, routeVars, isAutoSyncEnabled,
                  isAutoSyncInitialized >>

NextSync ==
  \/ Mount
  \/ \E enabled \in BOOLEAN : SetAutoSyncEnabled(enabled)
  \/ TriggerSync
  \/ TimerExpires
  \/ \E n \in 1..MaxRequests : StreamProgress(n) \/ SyncEnds(n)

SpecSync == InitSync /\ [][NextSync]_vars

\* ---- the claims ----

UnknownError == UnsubscribeResult("false", "Unknown error")
Exhausted ==
  UnsubscribeResult("false", "Could not complete unsubscribe after multiple attempts")

\* what processing links[i] came to: the result its processUnsubscribe returned,
\* or the stand-in for a task that rejected
OutcomeOf(i) == IF pc[i] = "rejected" THEN UnknownError ELSE ret[i]

\* C1: the call returns exactly one result per link, and the result at index i is
\* the outcome of processing links[i], whatever the order in which the tasks
\* completed; while the batch runs, a slot that has been written holds the result
\* of the task of that index.
ResultsInInputOrder ==
  /\ \A i \in Targets : results[i] # Missing /\ pc[i] = "fulfilled" => results[i] = ret[i]
  /\ batch = "returned" =>
       /\ Len(returned) = Len(links)
       /\ ~launchError => \A i \in Targets : returned[i] = OutcomeOf(i)

OutOfOrderBatchReturned ==
  /\ batch = "returned"
  /\ Len(links) = 3
  /\ overtaken
  /\ returned[1] # returned[2]
  /\ returned[2] # returned[3]
  /\ returned[1] # returned[3]

\* C2: when the call returns, every slot holds a result with method "ai", and the
\* slot of a task that rejected holds a failure.
EverySlotDefined ==
  batch = "returned" =>
    \A i \in Targets :
      /\ returned[i] # Missing
      /\ returned[i].method = "ai"
      /\ pc[i] = "rejected" => returned[i].success = "false"

CrashedSlotReturned ==
  /\ batch = "returned"
  /\ \E i, j \in Targets :
       /\ pc[i] = "rejected"
       /\ returned[i] = UnknownError
       /\ pc[j] = "fulfilled"
       /\ returned[j].success = "true"

\* C3: analyzeAndAct is invoked at most 5 times per target, the k-th invocation
\* with attempt number k; no invocation has a number above 5.
AttemptCeiling ==
  \A i \in probe :
    /\ calls[i] <= 5
    /\ attempt[i] <= 5
    /\ pc[i] \in {"analyzeAndAct", "waitForPageChange"} => attempt[i] >= 1
    /\ pc[i] = "analyzeAndAct" => attempt[i] = calls[i] + 1
    /\ pc[i] = "waitForPageChange" => attempt[i] = calls[i]

FifthAttemptMade ==
  \E i \in probe : calls[i] = 5 /\ pc[i] = "close" /\ ret[i] = Exhausted

\* C4: a target on which every consultation of the oracle answered Click on a
\* valid element and the page never changed ends after exactly 5 attempts with
\* the attempt-exhaustion failure.
NoopClicksExhaust ==
  \A i \in probe :
    noop[i] = "yes" /\ pc[i] = "close" => calls[i] = 5 /\ ret[i] = Exhausted

\* C5: an attempt whose oracle reply is not JSON is the last attempt of its target:
\* the target fails, nothing is clicked or filled in that attempt, and the oracle
\* is not asked again.
ParseFailureTerminal ==
  \A i \in probe :
    last[i].reply = "malformed" =>
      /\ pc[i] \in {"close", "returned", "fulfilled", "rejected"}
      /\ last[i].act = "none"
      /\ oracleCalls[i] = calls[i]
      /\ domActions[i] = calls[i] - 1
      /\ pc[i] \in {"close", "returned"} =>
           /\ ret[i].success = "false"
           /\ ret[i].message \in {"AI response parsing failed",
                                  "No interactive elements found"}
      /\ pc[i] = "fulfilled" => results[i].success = "false"

ParseFailureAfterClicks ==
  \E i \in probe :
    /\ last[i].reply = "malformed"
    /\ last[i].oracle = "action"
    /\ calls[i] = 3
    /\ pc[i] = "fulfilled"
    /\ results[i] = UnsubscribeResult("false", "AI response parsing failed")

\* C6: in a batch of three where the navigation of one target threw, that target's
\* slot holds a failure, and every other target was run and its slot holds its own
\* outcome.
NavigationFailureIsolated ==
  \A b \in Targets :
    batch = "returned" /\ Len(links) = 3 /\ navigationError[b] =>
      /\ returned[b] \in {UnsubscribeResult("false", NavigationMessage), UnknownError}
      /\ \A i \in Targets \ {b} :
           /\ Settled(i)
           /\ returned[i] = OutcomeOf(i)

MiddleTargetFailedOthersSucceeded ==
  /\ batch = "returned"
  /\ Len(links) = 3
  /\ navigationError[2]
  /\ returned[1].success = "true"
  /\ returned[2] = UnsubscribeResult("false", NavigationMessage)
  /\ returned[3].success = "true"

\* C7: when the browser fails to launch the call still returns: one failure per
\* link with the launch error's message; no context was created and no task ran.
LaunchFailureFailsAll ==
  launchError =>
    /\ batch = "returned"
    /\ browser = "null"
    /\ Len(returned) = Len(links)
    /\ \A i \in Targets :
         /\ returned[i] = UnsubscribeResult("false", LaunchMessage)
         /\ pc[i] = "queued"
         /\ context[i] = "none"
         /\ progress[i].started = 0

LaunchFailedForThree == launchError /\ Len(links) = 3 /\ batch = "returned"

\* C8: when the call has returned, the callback has received exactly one "started"
\* and exactly one "completed" event for every index, and the completed event
\* carried the result returned at that index.
ProgressPairs ==
  batch = "returned" /\ onProgress =>
    \A i \in Targets :
      /\ progress[i].started = 1
      /\ progress[i].completed = 1
      /\ progress[i].result = returned[i]

\* C9: processUnsubscribe never rejects.
NeverRejects == \A i \in Targets : pc[i] # "rejected"

\* C10: the targets that have started and not finished, and the contexts that are
\* open, never outnumber the concurrency cap.
ConcurrencyCap ==
  /\ activeCount <= concurrency
  /\ Cardinality({i \in Targets : context[i] = "open"}) <= concurrency

CapReachedWithQueue ==
  /\ concurrency = 2
  /\ Len(links) = 3
  /\ Cardinality({i \in Targets : context[i] = "open"}) = 2
  /\ pc[3] = "queued"

\* C11: every context that was created is closed exactly once on every exit path
\* of processUnsubscribe: close() has been called once, and never twice, by the
\* time the task has returned or rejected, before its result is stored in
\* results[index] and before its "completed" event is emitted; no context is
\* open once all tasks have settled.
ContextClosedOnce ==
  \A i \in Targets :
    /\ closes[i] <= 1
    /\ closes[i] = 1 <=> context[i] \in {"closed", "closeFailed"}
    /\ pc[i] \in {"returned", "fulfilled"} => context[i] = "closed"
    /\ pc[i] = "rejected" => context[i] \in {"none", "closeFailed"}
    /\ results[i] # Missing /\ context[i] # "none" => closes[i] = 1
    /\ progress[i].completed > 0 => context[i] = "closed"
    /\ batch \in {"finally", "returned", "rejected"} => context[i] # "open"

EveryExitPathClosed ==
  /\ batch = "returned"
  /\ Len(links) = 3
  /\ returned[1] = UnsubscribeResult("true", "Unsubscribed successfully")
  /\ returned[2] = Exhausted
  /\ returned[3] = UnsubscribeResult("false", OracleMessage)
  /\ \A i \in Targets : closes[i] = 1 /\ progress[i].completed = 1

\* C12: a target whose initial navigation failed (page.goto threw, or the load
\* ended with a status that is not 2xx) ends with success=false and the
\* navigation error's message, and analyzeAndAct is never invoked for it.
NavigationFailureTerminal ==
  \A i \in probe :
    navigationError[i] \/ response[i] = "notOk" =>
      /\ calls[i] = 0
      /\ pc[i] \notin {"waitForContent", "analyzeAndAct", "waitForPageChange"}
      /\ pc[i] \in {"close", "returned"} => ret[i] = Caught(NavigationMessage)
      /\ pc[i] = "fulfilled" => results[i] = Caught(NavigationMessage)

\* the visible text read by the most recent attempt of i is decided by a heuristic
Conclusive(i) ==
  /\ calls[i] >= 1
  /\ ~seen[i].throws
  /\ seen[i].success \/ (seen[i].short /\ calls[i] > 1) \/ seen[i].error

HeuristicVerdict(i) ==
  IF seen[i].success \/ (seen[i].short /\ calls[i] > 1)
    THEN UnsubscribeResult("true", "Unsubscribed successfully")
    ELSE UnsubscribeResult("false", "Unsubscribe failed - error on page")

\* C13: an attempt whose visible text matches a success pattern, or has collapsed
\* on an attempt after the first, or matches an error pattern, ends the target with
\* the heuristic verdict, and in that attempt no elements are extracted, the
\* oracle is not asked and nothing is clicked or filled.
HeuristicsFirst ==
  \A i \in probe :
    Conclusive(i) =>
      /\ last[i] = NoTrace
      /\ pc[i] \in {"close", "returned", "fulfilled", "rejected"}
      /\ pc[i] \in {"close", "returned"} => ret[i] = HeuristicVerdict(i)
      /\ pc[i] = "fulfilled" => results[i] = HeuristicVerdict(i)

ErrorPatternAfterTwoClicks ==
  \E i \in probe :
    /\ calls[i] = 3
    /\ oracleCalls[i] = 2
    /\ domActions[i] = 2
    /\ seen[i] = Text(FALSE, FALSE, TRUE, FALSE)
    /\ last[i] = NoTrace
    /\ pc[i] = "fulfilled"
    /\ results[i] = UnsubscribeResult("false", "Unsubscribe failed - error on page")

\* C14: whenever the visible text matches an error pattern and no success pattern,
\* the attempt returns done with success=false and the message "Unsubscribe
\* failed - error on page", whatever the attempt number and the length of the text.
ErrorPatternFails ==
  \A i \in probe :
    calls[i] >= 1 /\ ~seen[i].throws /\ seen[i].error /\ ~seen[i].success =>
      /\ pc[i] \in {"close", "returned", "fulfilled", "rejected"}
      /\ pc[i] \in {"close", "returned"} =>
           ret[i] = UnsubscribeResult("false", "Unsubscribe failed - error on page")
      /\ pc[i] = "fulfilled" =>
           results[i] = UnsubscribeResult("false", "Unsubscribe failed - error on page")

\* C15: no text is matched by both isSuccessPage and isErrorPage.
NeverBoth == matched # Missing => ~(matched.success /\ matched.error)

\* the confirmation wording of the texts the tests assert, family by family
SuccessWordings ==
  { "successfully unsubscribed", "already unsubscribed", "you are now unsubscribed",
    "you have been unsubscribed", "you've been unsubscribed",
    "preferences have been saved", "preferences have been updated",
    "settings have been saved", "changes have been saved",
    "removed from our mailing list", "no longer receive",
    "subscription has been cancelled", "subscription has been canceled",
    "opt-out is complete", "\"success\":true", "unsubscribe successful" }

\* the failure wording of the texts the tests assert, family by family
ErrorWordings ==
  { "link has expired", "invalid unsubscribe link", "error occurred",
    "something went wrong", "try again later", "unsubscribe failed" }

\* text contains one of the wordings, in any letter case and at any place
ContainsWording(t, wordings) == \E w \in wordings : Includes(toLowerCase(t), w)

ErrorWordingDetected ==
  matched # Missing =>
    /\ ContainsWording(text, ErrorWordings) => matched.error
    /\ text \in { "You have been unsubscribed successfully.",
                  "Please select your email preferences.",
                  "Confirm your unsubscribe request." } => ~matched.error

ExpiredLinkDetected ==
  /\ text = "Hello Jane, " \o "This unsubscribe link has expired."
               \o " Click here to resubscribe."
  /\ matched # Missing
  /\ matched.error
  /\ ~matched.success

\* C18: a checkbox or radio the pass returns never has a label that was resolved
\* from a hard-hidden element, whatever the label text.
NoHiddenLabelSource ==
  extracted \notin {Missing, Dropped} =>
    LET info == findLabelInfo(control)
    IN info.sourceElement # 0 => ~control.sources[info.sourceElement].hidden

ParsingFailed == UnsubscribeResult("false", "AI response parsing failed")

\* C19: a target whose oracle reply did not parse ends with the message "AI
\* response parsing failed", and a target that ends with that message had an
\* oracle reply that did not parse.
ParseFailureDistinct ==
  \A i \in probe :
    /\ last[i].reply = "malformed" /\ pc[i] \in {"close", "returned"} =>
         ret[i] = ParsingFailed
    /\ last[i].reply = "malformed" /\ pc[i] = "fulfilled" => results[i] = ParsingFailed
    /\ pc[i] \in {"close", "returned"} /\ ret[i] = ParsingFailed =>
         last[i].reply = "malformed"

\* C20: friendlyUnsubscribeErrorMessage maps every message that contains
\* "Navigation failed" or a "net::" network error code to "Could not reach the
\* unsubscribe page. Please try again."
NetworkErrorsCouldNotReach ==
  friendly # Missing /\ (Includes(message, "Navigation failed") \/ Includes(message, "net::"))
    => friendly.value = CouldNotReach

\* C21: the locator of every returned button, checkbox, radio or input resolves to
\* the node its record was extracted from, whatever nodes the filters dropped.
HandleResolvesToSource ==
  located # Missing =>
    \A j \in 1..Len(located.elements) :
      located.elements[j].type \in {"button", "checkbox", "radio", "input"} =>
        located.elements[j].locator = located.elements[j].node

\* the most recent attempt of i issued the implicit success for short visible text
ImplicitSuccess(i) ==
  /\ calls[i] >= 1
  /\ last[i] = NoTrace
  /\ ~seen[i].throws /\ ~seen[i].success /\ seen[i].short
  /\ pc[i] \in {"close", "returned"}
  /\ ret[i] = UnsubscribeResult("true", "Unsubscribed successfully")

\* C22: the implicit success for a visible text under 50 characters is never
\* issued on attempt 1, and on a later attempt only if an earlier attempt of the
\* same target read a visible text of 50 characters or more.
CollapseOnlyAfterLongText ==
  \A i \in probe : ImplicitSuccess(i) => calls[i] > 1 /\ wasLong[i]

\* the first-level iframes whose body text exceeds 50 characters
LongFrames == {k \in 1..Len(page.iframes) : Len(innerText(page.iframes[k])) > 50}

\* C23: when the text of the top document does not exceed 50 characters, the
\* resolver adopts the first first-level iframe, in document order, whose text
\* exceeds 50 characters, whatever its position among the iframes.
FirstLongFrameAdopted ==
  content # Missing /\ ~content.throws /\ Len(innerText(page)) <= 50 /\ LongFrames # {} =>
    LET k == CHOOSE k \in LongFrames : \A j \in LongFrames : k <= j
    IN content = FrameContent(<< k >>, innerText(page.iframes[k]))

\* the texts of the documents the resolver probes: the page, its first iframe, the
\* first iframe of that one
Probed ==
  {innerText(page)}
    \cup (IF Len(page.iframes) = 0 THEN {}
          ELSE {innerText(page.iframes[1])}
                 \cup (IF Len(page.iframes[1].iframes) = 0 THEN {}
                       ELSE {innerText(page.iframes[1].iframes[1])}))

\* C24: the resolver returns the top document whenever its text exceeds 50
\* characters; it never returns a frame more than two levels down; and when no
\* probed document exceeds 50 characters, or probing throws, it returns the top
\* document with the top document's text.
TopDocumentIsFallback ==
  content # Missing =>
    /\ Len(innerText(page)) > 50 => content = FrameContent(<< >>, innerText(page))
    /\ Len(content.frame) <= 2
    /\ (\A t \in Probed : Len(t) <= 50) => content = FrameContent(<< >>, innerText(page))
    /\ ~content.throws

InLoop(i) == pc[i] \in {"analyzeAndAct", "waitForPageChange"}

\* at the start of attempt k the history of i holds k-1 entries, entry j that of
\* the click or fill of attempt j
HistoryAtAttemptStart(i) ==
  pc[i] = "analyzeAndAct" =>
    /\ Len(actionHistory[i]) = attempt[i] - 1
    /\ \A j \in 1..Len(actionHistory[i]) :
         actionHistory[i][j] \in {Clicked(j), Filled(j)}

\* while i is in its loop a step leaves its history alone or appends one entry
AppendOnly(i) ==
  InLoop(i) /\ InLoop(i)' =>
    \/ actionHistory'[i] = actionHistory[i]
    \/ /\ Len(actionHistory'[i]) = Len(actionHistory[i]) + 1
       /\ SubSeq(actionHistory'[i], 1, Len(actionHistory[i])) = actionHistory[i]

\* a step changes the history of one target at most
NotShared ==
  \A i, j \in Targets :
    actionHistory'[i] # actionHistory[i] /\ actionHistory'[j] # actionHistory[j] => i = j

ActsOnNthElement ==
  acted # Missing =>
    IF acted.element \in 1..Len(located.elements)
      THEN acted.node = located.elements[acted.element].node
      ELSE acted.node = 0

PageChangeWaits == {"urlChanged", "sameUrl", "timeout"}

\* C27: the result of an attempt asks for the page-change wait exactly when the
\* attempt clicked an element of type button or link; after a click on another
\* element or a fill the next attempt starts without that wait; and
\* waitForPageChange runs only after an attempt whose result was not done.
WaitOnlyAfterButtonOrLink ==
  \A i \in traced :
    calls[i] >= 1 =>
      /\ lastResult[i].wait <=>
           last[i].act \in {"click", "fallback"} /\ last[i].on \in {"button", "link"}
      /\ pc[i] = "waitForPageChange" \/ waited[i] \in PageChangeWaits =>
           lastResult[i].kind = "continue" /\ lastResult[i].wait
      /\ pc[i] = "analyzeAndAct" /\ ~lastResult[i].wait => waited[i] = "none"

WaitedAfterButton ==
  \E i \in traced :
    /\ pc[i] = "analyzeAndAct" /\ attempt[i] = 2
    /\ last[i].act = "click" /\ last[i].on = "button"
    /\ waited[i] = "sameUrl"

NoElementsFound == UnsubscribeResult("false", "No interactive elements found")

\* the result of the target of i, once processUnsubscribe has one
Ended(i) == pc[i] \in {"close", "returned", "fulfilled", "rejected"}
Result(i) == IF pc[i] = "fulfilled" THEN results[i] ELSE ret[i]

\* C28: an attempt whose extraction returned no elements is the last one of its
\* target: it makes the text-only request and no other, clicks and fills nothing,
\* and the target ends with the success value of the verdict, or with success
\* false and "No interactive elements found" when the reply does not parse.
NoElementsTerminal ==
  \A i \in probe :
    last[i].oracle = "text" =>
      /\ Ended(i)
      /\ oracleCalls[i] = calls[i]
      /\ last[i].act = "none" /\ lastResult[i].pushed = 0
      /\ domActions[i] = calls[i] - 1
      /\ pc[i] # "rejected" /\ last[i].reply = "json" =>
           Result(i).success = last[i].verdict
      /\ pc[i] # "rejected" /\ last[i].reply \in {"malformed", "null"} =>
           Result(i) = NoElementsFound

VerdictAfterClick ==
  \E i \in probe :
    /\ calls[i] = 2 /\ oracleCalls[i] = 2 /\ domActions[i] = 1
    /\ last[i].oracle = "text" /\ last[i].reply = "json" /\ last[i].verdict = "true"
    /\ pc[i] = "fulfilled"
    /\ results[i] = UnsubscribeResult("true", "reason")

\* C29: when a request to the oracle throws, in the text-only or in the action
\* request, the target ends with success false and the message of the error, and
\* that attempt is its last: nothing is clicked or filled in it, and no attempt or
\* request follows.
OracleFailureTerminal ==
  \A i \in probe :
    last[i].reply = "throws" =>
      /\ Ended(i)
      /\ lastResult[i] = [kind |-> "thrown", wait |-> FALSE, pushed |-> 0]
      /\ last[i].act = "none"
      /\ oracleCalls[i] = calls[i] /\ domActions[i] = calls[i] - 1
      /\ pc[i] # "rejected" => Result(i) = UnsubscribeResult("false", OracleMessage)

OracleFailedOnThirdAttempt ==
  \E i \in probe :
    /\ calls[i] = 3 /\ oracleCalls[i] = 3 /\ domActions[i] = 2
    /\ last[i].oracle = "action" /\ last[i].reply = "throws"
    /\ pc[i] = "fulfilled"
    /\ results[i] = UnsubscribeResult("false", OracleMessage)

\* C30: no outcome of waitForContent or of waitForPageChange fails the target:
\* after either wait, however it ended, the next attempt starts, or, after the
\* fifth attempt, the target ends with the attempt-exhaustion result.
WaitsNeverFail ==
  \A i \in probe :
    waited[i] # "none" =>
      \/ pc[i] = "analyzeAndAct" /\ attempt[i] = calls[i] + 1
      \/ /\ Ended(i)
         /\ waited[i] \in PageChangeWaits
         /\ calls[i] = MaxAttempts
         /\ pc[i] # "rejected" => Result(i) = Exhausted

AttemptAfterTimedOutWaits ==
  \E i \in probe :
    /\ waited[i] = "timeout"
    /\ calls[i] = 2
    /\ pc[i] = "analyzeAndAct" /\ attempt[i] = 3

ClickFailure == UnsubscribeResult("false", "Action failed: locator.evaluate: failed")

\* C31: after a Click action on a listed element the target goes on when the direct
\* click went through or the programmatic click did after the direct one threw; it
\* ends, with success false and the "Action failed" message, exactly when both
\* threw; and the other target of the batch still settles with its own outcome.
FallbackThenFailure ==
  \A i \in probe :
    /\ last[i].act \in {"click", "fallback"} => lastResult[i].kind = "continue"
    /\ last[i].act = "clickFailed" =>
         /\ lastResult[i].kind = "done"
         /\ Ended(i)
         /\ pc[i] # "rejected" => Result(i) = ClickFailure
         /\ batch = "returned" =>
              \A j \in Targets \ {i} : Settled(j) /\ returned[j] = OutcomeOf(j)
    /\ Ended(i) /\ pc[i] # "rejected" /\ Result(i) = ClickFailure =>
         last[i].act = "clickFailed"

BothClicksThrewOtherTargetSucceeded ==
  /\ batch = "returned"
  /\ last[1].act = "clickFailed"
  /\ calls[1] = 2
  /\ returned[1] = ClickFailure
  /\ returned[2].success = "true"

\* an action reply that parsed but is no Done, no Click with an element number and
\* no Fill with an element number and a value
Unusable(tr) ==
  /\ tr.oracle = "action"
  /\ \/ tr.reply \in {"null", "other"}
     \/ tr.reply = "CLICK" /\ tr.element = 0
     \/ tr.reply = "FILL" /\ (tr.element = 0 \/ ~tr.value)
UnusableMessages ==
  {"Invalid AI action", "Action failed: Cannot read properties of null"}

\* C32: an attempt whose action reply is JSON but unusable is the last one of its
\* target: nothing is clicked or filled, nothing is appended to the history, and
\* the target ends with success false.
UnusableReplyTerminal ==
  \A i \in probe :
    Unusable(last[i]) =>
      /\ last[i].act = "none"
      /\ lastResult[i] = [kind |-> "done", wait |-> FALSE, pushed |-> 0]
      /\ domActions[i] = calls[i] - 1
      /\ Ended(i)
      /\ pc[i] # "rejected" =>
           /\ Result(i).success = "false"
           /\ Result(i).message \in UnusableMessages

FillWithoutValueAfterClick ==
  \E i \in probe :
    /\ last[i].reply = "FILL" /\ last[i].element = 1 /\ ~last[i].value
    /\ calls[i] = 2 /\ domActions[i] = 1
    /\ pc[i] = "fulfilled"
    /\ results[i] = UnsubscribeResult("false", "Invalid AI action")

\* a step that changes results[i] writes an empty slot, and is either the task of
\* i storing its own result and touching no other slot, or the fill-in loop,
\* after every task has settled, standing in for the task of i that rejected
OwnSlotOrFillIn ==
  \A i \in Targets :
    results'[i] # results[i] =>
      /\ results[i] = Missing
      /\ \/ /\ pc[i] = "returned" /\ pc'[i] = "fulfilled"
            /\ results'[i] = ret[i]
            /\ \A j \in Targets \ {i} : results'[j] = results[j]
         \/ /\ pc[i] = "rejected"
            /\ \A j \in Targets : Settled(j)
            /\ batch = "running" /\ batch' = "finally"
            /\ results'[i] = UnknownError
\* a slot is written by its task exactly when that task has fulfilled
WrittenWhenFulfilled ==
  \A i \in Targets : batch = "running" => (results[i] # Missing <=> pc[i] = "fulfilled")
WrittenAfterLaunch ==
  batch \in {"finally", "returned", "rejected"} /\ ~launchError =>
    \A i \in Targets : results[i] # Missing
WrittenInEveryCall ==
  batch \in {"finally", "returned", "rejected"} => \A i \in Targets : results[i] # Missing

\* C33: in every call every slot of results is written exactly once, by the task
\* of its index or by the fill-in loop, and a task writes no slot but its own.
EverySlotWrittenOnce ==
  /\ [](WrittenWhenFulfilled /\ WrittenInEveryCall)
  /\ [][OwnSlotOrFillIn]_vars

\* C33, amended: that holds in every call in which the browser was launched; when
\* the launch throws, no slot of results is written at all.
LaunchedSlotWrittenOnce ==
  /\ [](WrittenWhenFulfilled /\ WrittenAfterLaunch)
  /\ [](launchError => \A i \in Targets : results[i] = Missing)
  /\ [][OwnSlotOrFillIn]_vars

OneSlotByTaskOneByFillIn ==
  /\ batch = "returned"
  /\ pc[1] = "rejected" /\ returned[1] = UnknownError
  /\ pc[2] = "fulfilled" /\ returned[2].success = "true"

\* the target of i has been started and its browser.newContext() has returned or
\* thrown
PastNewContext(i) == pc[i] \notin {"queued", "newContext"}
\* processUnsubscribe is under way between newContext and the finally block
Processing(i) == pc[i] \in {"newPage", "goto", "waitForContent", "analyzeAndAct",
                            "waitForPageChange", "close"}
\* processUnsubscribe is entered from the queue only, and only once; a context is
\* created by the target's own newContext step only, where there was none
OneRunOneContext ==
  \A i \in Targets :
    /\ pc'[i] = "queued" => pc[i] = "queued"
    /\ pc'[i] = "newContext" => pc[i] \in {"queued", "newContext"}
    /\ context[i] # "none" => context'[i] # "none"
    /\ context[i] = "none" /\ context'[i] # "none" =>
         /\ pc[i] = "newContext" /\ context'[i] = "open"
         /\ \A j \in Targets \ {i} : context'[j] = context[j]
AllRun ==
  batch \in {"finally", "returned", "rejected"} /\ ~launchError =>
    \A i \in Targets : Settled(i)

\* C34: every started target gets one context of its own, created by its own
\* newContext call, and processUnsubscribe runs once per target, failed or not.
OneContextPerStartedTarget ==
  /\ [](\A i \in Targets : PastNewContext(i) => context[i] # "none")
  /\ [](\A i \in Targets : Processing(i) => context[i] = "open")
  /\ []AllRun
  /\ [][OneRunOneContext]_vars

\* C34, amended: every started target asks for one context of its own; it has one
\* unless that newContext call threw, and then it is not processed at all.
OneContextRequestPerStartedTarget ==
  /\ [](\A i \in Targets :
          PastNewContext(i) /\ context[i] = "none" => pc[i] = "rejected" /\ closes[i] = 0)
  /\ [](\A i \in Targets : Processing(i) => context[i] = "open")
  /\ []AllRun
  /\ [][OneRunOneContext]_vars

FailedTargetNotRetried ==
  /\ batch = "returned"
  /\ calls[1] = 1 /\ closes[1] = 1 /\ context[1] = "closed"
  /\ returned[1].success = "false"
  /\ closes[2] = 1 /\ context[2] = "closed"
  /\ returned[2].success = "true"

BrowserGone == browser \in {"closed", "closeFailed"}
\* browser.close() is called on an open browser from the finally block only, and
\* after it no task takes a step and no context changes
ClosedOnceAndLast ==
  /\ browser' # browser =>
       \/ browser = "null" /\ browser' = "open"
       \/ browser = "open" /\ batch = "finally" /\ browser' \in {"closed", "closeFailed"}
  /\ BrowserGone => pc' = pc /\ context' = context

\* C35: a launched browser is closed once, by the time the call is left, after
\* every task has settled; once it is closed no context is open, created or used.
BrowserClosedOnceAfterTasks ==
  /\ [](BrowserGone => \A i \in Targets : Settled(i) /\ context[i] # "open")
  /\ [](batch \in {"returned", "rejected"} /\ ~launchError => BrowserGone)
  /\ [](browser = "open" => batch \in {"running", "finally"})
  /\ [][ClosedOnceAndLast]_vars

BrowserClosedAfterFailedTarget ==
  /\ batch = "returned"
  /\ browser = "closed"
  /\ navigationError[1]
  /\ closes[1] = 1 /\ closes[2] = 1
  /\ returned[2].success = "true"

\* C36: when every awaited operation settles, the call is eventually left, and
\* every target queued behind the cap is eventually started, whatever became of
\* the targets before it.
EventuallyReturns ==
  /\ <>(batch \in {"returned", "rejected"})
  /\ \A i \in 1..MaxLinks :
       (i \in Targets /\ batch = "running" /\ pc[i] = "queued")
         ~> (i \in Targets /\ pc[i] # "queued")

ThirdTargetRanAfterTwoRejected ==
  /\ Len(links) = 3 /\ concurrency = 1
  /\ batch = "returned"
  /\ pc[1] = "rejected" /\ pc[2] = "rejected"
  /\ pc[3] = "fulfilled" /\ returned[3].success = "true"

\* hard-hidden as the specification words it, on the computed style of one node
HiddenAsSpecified(style) ==
  \/ style.display = "none"
  \/ style.visibility = "hidden"
  \/ style.overflow = "hidden" /\ style.height = "0px"
  \/ style.overflow = "hidden" /\ style.maxHeight = "0px"
\* the nodes of the path below document.body
BelowBody(path) == {k \in 1..Len(path) : \A j \in 1..k : path[j].tag # "body"}

\* C37: an element the pass pushes an entry for is not hard-hidden, and neither is
\* any of its ancestors below document.body, whatever its kind.
NoHardHiddenElement ==
  pushed # Missing /\ pushed.value =>
    \A k \in BelowBody(node.path) : ~HiddenAsSpecified(node.path[k].style)

LinkUnderFlatAndTransparentAncestors ==
  /\ pushed # Missing /\ pushed.value
  /\ node.kind = "link"
  /\ Len(node.path) = MaxDepth + 2
  /\ node.path[2].style = [Shown EXCEPT !.height = "0px"]
  /\ node.path[3].style = [Shown EXCEPT !.opacity = "0"]
  /\ node.path[4].style.display = "none"

EntriesOf(id) == {n \in 1..Len(complete.results) : complete.results[n].emailId = id}

\* C38: the complete event counts every selected email once: succeeded + failed is
\* the number of emails, its results hold one entry per email, and the status of
\* every email has been updated once.
CompleteCountsEveryEmail ==
  complete # Missing =>
    /\ complete.succeeded + complete.failed = Len(emails)
    /\ \A id \in 1..Len(emails) :
         /\ Cardinality(EntriesOf(id)) = 1
         /\ statusUpdates[id] = 1

\* C39: at most one sync request is in flight at any time.
OneSyncInFlight == Len(inFlight) <= 1

====
